---- MODULE Spec2Model ----
(***************************************************************************)
(* Model of the PLC configuration normalization library                    *)
(* (src/shared/normalization.ts): normalizePLCConfig, denormalizePLC,      *)
(* groupPLCsByServer and filterVariables.                                  *)
(*                                                                         *)
(* JavaScript strings are sequences of one-character strings, so that      *)
(* concatenation, padStart, toLowerCase, trim and includes are computed.   *)
(* An optional field is a sequence of length 0 (unset) or 1 (set).         *)
(***************************************************************************)
EXTENDS Integers, Sequences, FiniteSets, TLC

VARIABLES doc, expanded, normalized, previous, denormalized, edited,
          groupInput, groups, filterInput, filterQuery, filtered, refiltered,
          bitInput, bitRows,
          plcIpUnique, plcRows, nodeRows, nextPlcId, nextNodeId, pending,
          lastRequest, guarded, released,
          userDescriptions, descClock, uuidsMade, lastSave, savedPairs,
          socket, sockets, emitted, lastCall

vars == << doc, expanded, normalized, previous, denormalized, edited,
           groupInput, groups, filterInput, filterQuery, filtered, refiltered,
           bitInput, bitRows,
           plcIpUnique, plcRows, nodeRows, nextPlcId, nextNodeId, pending,
           lastRequest, guarded, released,
           userDescriptions, descClock, uuidsMade, lastSave, savedPairs,
           socket, sockets, emitted, lastCall >>

normVars == << doc, expanded, normalized, previous, denormalized, edited >>
groupVars == << groupInput, groups >>
filterVars == << filterInput, filterQuery, filtered, refiltered >>
bitVars == << bitInput, bitRows >>
serverVars == << plcIpUnique, plcRows, nodeRows, nextPlcId, nextNodeId, pending,
                lastRequest, guarded, released >>
descVars == << userDescriptions, descClock, uuidsMade, lastSave, savedPairs >>
socketVars == << socket, sockets, emitted, lastCall >>

(***************************************************************************)
(* Bounds of the model.                                                    *)
(***************************************************************************)
MaxBits == 3
MaxMappings == 2
MaxPLCs == 2
MaxGroupPLCs == 3
MaxFilterVars == 3

(***************************************************************************)
(* Optional values and generic sequence helpers.                           *)
(***************************************************************************)
None == << >>
Some(x) == << x >>
IsSome(o) == Len(o) = 1
Get(o) == o[1]

\* All sequences over S of length at most n.
SeqsUpTo(S, n) == UNION { [1..k -> S] : k \in 0..n }

(***************************************************************************)
(* JavaScript string operations.                                           *)
(***************************************************************************)
UpperChars == << "A", "B", "C", "D", "E", "F", "G", "H", "I", "J", "K", "L", "M",
                 "N", "O", "P", "Q", "R", "S", "T", "U", "V", "W", "X", "Y", "Z" >>
LowerChars == << "a", "b", "c", "d", "e", "f", "g", "h", "i", "j", "k", "l", "m",
                 "n", "o", "p", "q", "r", "s", "t", "u", "v", "w", "x", "y", "z" >>

LowerChar(c) ==
  IF \E i \in 1..Len(UpperChars) : UpperChars[i] = c
  THEN LowerChars[CHOOSE i \in 1..Len(UpperChars) : UpperChars[i] = c]
  ELSE c

\* String.prototype.toLowerCase
ToLowerCase(s) == [i \in 1..Len(s) |-> LowerChar(s[i])]

\* The white space of String.prototype.trim among the characters a TLA+
\* string can hold. The last member is the vertical tab U+000B, written as
\* the character itself because it has no escape.
WhiteSpace == { " ", "\t", "\n", "\r", "\f", "" }

RECURSIVE TrimStart(_)
TrimStart(s) ==
  IF s # << >> /\ Head(s) \in WhiteSpace THEN TrimStart(Tail(s)) ELSE s

RECURSIVE TrimEnd(_)
TrimEnd(s) ==
  IF s # << >> /\ s[Len(s)] \in WhiteSpace
  THEN TrimEnd(SubSeq(s, 1, Len(s) - 1)) ELSE s

\* String.prototype.trim
Trim(s) == TrimEnd(TrimStart(s))

\* String.prototype.includes: q occurs in s as a contiguous substring.
Includes(s, q) ==
  \E i \in 1..(Len(s) - Len(q) + 1) : SubSeq(s, i, i + Len(q) - 1) = q

Digits == << "0", "1", "2", "3", "4", "5", "6", "7", "8", "9" >>

RECURSIVE NatToString(_)
NatToString(n) ==
  IF n < 10 THEN << Digits[n + 1] >>
  ELSE NatToString(n \div 10) \o << Digits[(n % 10) + 1] >>

\* Number.prototype.toString (integers)
NumToString(n) == IF n < 0 THEN << "-" >> \o NatToString(0 - n) ELSE NatToString(n)

RECURSIVE PadStart(_, _, _)
\* String.prototype.padStart with a one-character filler
PadStart(s, width, fill) ==
  IF Len(s) >= width THEN s ELSE PadStart(<< fill >> \o s, width, fill)

(***************************************************************************)
(* normalizeAddressMapping                                                 *)
(*                                                                         *)
(* An AddressMapping is [plc_reg_add, data_type, opcua_reg_add,            *)
(* description, metadata]; metadata is optional and holds bit_count and    *)
(* bit_mappings, a record kept as the sequence of its [key, value] entries *)
(* in insertion order (Object.entries order for non-index keys).           *)
(* A NormalizedVariable carries every field of the interface; the fields   *)
(* the code leaves out are None.                                           *)
(***************************************************************************)
HasBitMappings(mapping) == IsSome(mapping.metadata)

BitEntries(mapping) == Get(mapping.metadata).bit_mappings

baseVariable(mapping) ==
  [ id            |-> mapping.opcua_reg_add,
    type          |-> IF mapping.data_type = "channel" THEN "channel" ELSE "bool",
    plc_reg_add   |-> mapping.plc_reg_add,
    opcua_reg_add |-> mapping.opcua_reg_add,
    description   |-> mapping.description,
    data_type     |-> mapping.data_type,
    metadata      |-> mapping.metadata,
    parentId      |-> None,
    bitPosition   |-> None,
    hasChildren   |-> None,
    children      |-> None ]

\* Variant of childVariable: the child refers to the parent's register
\* address in place of its logical name.
childVariableWrongParent(mapping, bitData) ==
  [ id            |-> mapping.opcua_reg_add \o << ":" >> \o NumToString(bitData.bit_position),
    type          |-> "bool",
    plc_reg_add   |-> bitData.address,
    opcua_reg_add |-> mapping.opcua_reg_add \o << "_", "b", "i", "t" >>
                        \o NumToString(bitData.bit_position),
    description   |-> bitData.description,
    data_type     |-> "bool",
    metadata      |-> None,
    parentId      |-> Some(mapping.plc_reg_add),
    bitPosition   |-> Some(bitData.bit_position),
    hasChildren   |-> None,
    children      |-> None ]

\* Variant of childVariable: the id of a bit row leaves out the position.
childVariableIdWithoutPosition(mapping, bitData) ==
  [ id            |-> mapping.opcua_reg_add \o << ":" >>,
    type          |-> "bool",
    plc_reg_add   |-> bitData.address,
    opcua_reg_add |-> mapping.opcua_reg_add \o << "_", "b", "i", "t" >>
                        \o NumToString(bitData.bit_position),
    description   |-> bitData.description,
    data_type     |-> "bool",
    metadata      |-> None,
    parentId      |-> Some(mapping.opcua_reg_add),
    bitPosition   |-> Some(bitData.bit_position),
    hasChildren   |-> None,
    children      |-> None ]

\* Variant of childVariable: the child takes the channel's own register
\* address instead of the bit's address.
childVariableParentAddress(mapping, bitData) ==
  [ id            |-> mapping.opcua_reg_add \o << ":" >> \o NumToString(bitData.bit_position),
    type          |-> "bool",
    plc_reg_add   |-> mapping.plc_reg_add,
    opcua_reg_add |-> mapping.opcua_reg_add \o << "_", "b", "i", "t" >>
                        \o NumToString(bitData.bit_position),
    description   |-> bitData.description,
    data_type     |-> "bool",
    metadata      |-> None,
    parentId      |-> Some(mapping.opcua_reg_add),
    bitPosition   |-> Some(bitData.bit_position),
    hasChildren   |-> None,
    children      |-> None ]

childVariable(mapping, bitData) ==
  [ id            |-> mapping.opcua_reg_add \o << ":" >> \o NumToString(bitData.bit_position),
    type          |-> "bool",
    plc_reg_add   |-> bitData.address,
    opcua_reg_add |-> mapping.opcua_reg_add \o << "_", "b", "i", "t" >>
                        \o NumToString(bitData.bit_position),
    description   |-> bitData.description,
    data_type     |-> "bool",
    metadata      |-> None,
    parentId      |-> Some(mapping.opcua_reg_add),
    bitPosition   |-> Some(bitData.bit_position),
    hasChildren   |-> None,
    children      |-> None ]

\* (v.bitPosition || 0)
BitPositionOrZero(v) == IF IsSome(v.bitPosition) THEN Get(v.bitPosition) ELSE 0

\* The position at which a stable sort places x among the sorted prefix:
\* after every element whose key is not greater.
InsertStable(sorted, x) ==
  LET k == Cardinality({ i \in 1..Len(sorted) :
                           BitPositionOrZero(sorted[i]) <= BitPositionOrZero(x) })
  IN SubSeq(sorted, 1, k) \o << x >> \o SubSeq(sorted, k + 1, Len(sorted))

RECURSIVE SortFrom(_, _, _)
SortFrom(s, i, acc) ==
  IF i > Len(s) THEN acc ELSE SortFrom(s, i + 1, InsertStable(acc, s[i]))

\* Variant of sortChildren: the children stay in declaration order.
sortChildrenUnsorted(children) == children

\* children.sort((a, b) => (a.bitPosition || 0) - (b.bitPosition || 0))
sortChildren(children) == SortFrom(children, 1, << >>)

\* The objects the channel branch of normalizeAddressMapping works on: the
\* mapping, which the caller hands over by reference, and the children
\* array, which the call creates empty.
ChannelBranch(mapping) == [ mapping |-> mapping, children |-> << >> ]

\* Variant of pushChildren: the entries are taken out of the bit_mappings
\* record as their children are pushed.
pushChildrenConsuming(call) ==
  [ call EXCEPT
      !.children = @ \o [ i \in 1..Len(BitEntries(call.mapping)) |->
                            childVariable(call.mapping, BitEntries(call.mapping)[i].value) ],
      !.mapping  = [ @ EXCEPT !.metadata = Some([ Get(@) EXCEPT !.bit_mappings = << >> ]) ] ]

\* Object.entries(mapping.metadata.bit_mappings).forEach(... children.push(...))
\* Object.entries returns a new array; push writes the children array.
pushChildren(call) ==
  [ call EXCEPT
      !.children = @ \o [ i \in 1..Len(BitEntries(call.mapping)) |->
                            childVariable(call.mapping, BitEntries(call.mapping)[i].value) ] ]

\* children.sort(...) sorts the children array in place.
sortInPlace(call) == [ call EXCEPT !.children = sortChildren(@) ]

\* The two objects when the channel branch returns.
expandBitsCall(mapping) == sortInPlace(pushChildren(ChannelBranch(mapping)))

expandBits(mapping) == expandBitsCall(mapping).children

\* The mapping as a call of normalizeAddressMapping leaves it: only the
\* channel branch runs statements that write to an object.
mappingAfter(mapping) ==
  IF mapping.data_type = "channel" /\ HasBitMappings(mapping)
  THEN expandBitsCall(mapping).mapping
  ELSE mapping

\* Variant of normalizeAddressMapping: no early return for bool mappings,
\* which then fall through to the childless branch.
normalizeAddressMappingNoBoolBranch(mapping) ==
  IF mapping.data_type = "channel" /\ HasBitMappings(mapping)
  THEN LET children == expandBits(mapping)
       IN << [ baseVariable(mapping) EXCEPT !.hasChildren = Some(TRUE),
                                            !.children = Some(children) ] >>
          \o children
  ELSE << [ baseVariable(mapping) EXCEPT !.hasChildren = Some(FALSE) ] >>

\* Variant of normalizeAddressMapping: every mapping that carries a
\* bit_mappings record is expanded, whatever its data_type.
normalizeAddressMappingAnyTypeWithBits(mapping) ==
  IF mapping.data_type = "bool"
  THEN << baseVariable(mapping) >>
  ELSE IF HasBitMappings(mapping)
  THEN LET children == expandBits(mapping)
       IN << [ baseVariable(mapping) EXCEPT !.hasChildren = Some(TRUE),
                                            !.children = Some(children) ] >>
          \o children
  ELSE << [ baseVariable(mapping) EXCEPT !.hasChildren = Some(FALSE) ] >>

normalizeAddressMapping(mapping) ==
  IF mapping.data_type = "bool"
  THEN << baseVariable(mapping) >>
  ELSE IF mapping.data_type = "channel" /\ HasBitMappings(mapping)
  THEN LET children == expandBits(mapping)
       IN << [ baseVariable(mapping) EXCEPT !.hasChildren = Some(TRUE),
                                            !.children = Some(children) ] >>
          \o children
  ELSE << [ baseVariable(mapping) EXCEPT !.hasChildren = Some(FALSE) ] >>

(***************************************************************************)
(* normalizePLCConfig                                                      *)
(*                                                                         *)
(* A document is [plcs |-> [kind, items]]: kind is what the plcs field     *)
(* holds ("undefined" when the key is missing) and items the entries when  *)
(* it is an array. A raw PLC entry has an optional plc_no and an optional  *)
(* address_mappings array. The result is [threw, value].                   *)
(***************************************************************************)
\* Variant of PlcsInvalid: only the falsy check, without Array.isArray.
PlcsInvalidFalsyOnly(json) == json.plcs.kind \in { "undefined", "null" }

\* !json.plcs || !Array.isArray(json.plcs)
PlcsInvalid(json) == json.plcs.kind # "array"

MappingsOf(plc) ==
  IF IsSome(plc.address_mappings) THEN Get(plc.address_mappings) ELSE << >>

\* Variant of allVariablesFrom: the mappings' results are concatenated in
\* reverse address_mappings order.
RECURSIVE allVariablesFromReversed(_, _)
allVariablesFromReversed(mappings, i) ==
  IF i > Len(mappings) THEN << >>
  ELSE allVariablesFromReversed(mappings, i + 1)
         \o normalizeAddressMapping(mappings[i])

RECURSIVE allVariablesFrom(_, _)
allVariablesFrom(mappings, i) ==
  IF i > Len(mappings) THEN << >>
  ELSE normalizeAddressMapping(mappings[i]) \o allVariablesFrom(mappings, i + 1)

\* Variant of boolIncrement: the bits of a channel are not counted.
boolIncrementBoolsOnly(mapping) == IF mapping.data_type = "bool" THEN 1 ELSE 0

boolIncrement(mapping) ==
  IF mapping.data_type = "bool" THEN 1
  ELSE IF mapping.data_type = "channel" /\ HasBitMappings(mapping)
       THEN Len(BitEntries(mapping))
       ELSE 0

channelIncrement(mapping) == IF mapping.data_type = "channel" THEN 1 ELSE 0

RECURSIVE countBools(_, _)
countBools(mappings, i) ==
  IF i > Len(mappings) THEN 0
  ELSE boolIncrement(mappings[i]) + countBools(mappings, i + 1)

RECURSIVE countChannels(_, _)
countChannels(mappings, i) ==
  IF i > Len(mappings) THEN 0
  ELSE channelIncrement(mappings[i]) + countChannels(mappings, i + 1)

\* Variant of normalizePLCEntry: the PLC starts out active and connected.
normalizePLCEntryConnected(plc, newId, checkedAt, createdAt) ==
  LET allVariables == allVariablesFrom(MappingsOf(plc), 1)
  IN [ id            |-> newId,
       plc_name      |-> plc.plc_name,
       plc_no        |-> plc.plc_no,
       plc_ip        |-> plc.plc_ip,
       opcua_url     |-> plc.opcua_url,
       status        |-> "active",
       last_checked  |-> checkedAt,
       is_connected  |-> TRUE,
       created_at    |-> createdAt,
       variables     |-> allVariables,
       registerCount |-> Len(allVariables),
       boolCount     |-> countBools(MappingsOf(plc), 1),
       channelCount  |-> countChannels(MappingsOf(plc), 1) ]

normalizePLCEntry(plc, newId, checkedAt, createdAt) ==
  LET allVariables == allVariablesFrom(MappingsOf(plc), 1)
  IN [ id            |-> newId,
       plc_name      |-> plc.plc_name,
       plc_no        |-> plc.plc_no,
       plc_ip        |-> plc.plc_ip,
       opcua_url     |-> plc.opcua_url,
       status        |-> "maintenance",
       last_checked  |-> checkedAt,
       is_connected  |-> FALSE,
       created_at    |-> createdAt,
       variables     |-> allVariables,
       registerCount |-> Len(allVariables),
       boolCount     |-> countBools(MappingsOf(plc), 1),
       channelCount  |-> countChannels(MappingsOf(plc), 1) ]

\* ids[i] is the Math.random() identifier drawn for the i-th entry, and
\* times[i] the two readings of the clock made for it: new Date() for
\* last_checked, then new Date() for created_at.
normalizePLCConfig(json, ids, times) ==
  IF PlcsInvalid(json)
  THEN [ threw |-> TRUE, value |-> << >> ]
  ELSE [ threw |-> FALSE,
         value |-> [ i \in 1..Len(json.plcs.items) |->
                       normalizePLCEntry(json.plcs.items[i], ids[i],
                                         times[i].last_checked, times[i].created_at) ] ]

\* The document as a call of normalizePLCConfig leaves it. The call hands
\* each mapping of each entry that has an address_mappings array to
\* normalizeAddressMapping; its own statements write to allVariables,
\* boolCount and channelCount, which the callback creates.
jsonAfter(json) ==
  IF PlcsInvalid(json) THEN json
  ELSE [ json EXCEPT
           !.plcs.items =
             [ p \in 1..Len(@) |->
                 [ @[p] EXCEPT
                     !.address_mappings =
                       IF IsSome(@)
                       THEN Some([ m \in 1..Len(Get(@)) |-> mappingAfter(Get(@)[m]) ])
                       ELSE @ ] ] ]

(***************************************************************************)
(* getParentVariables, getChildVariables, denormalizePLC                   *)
(***************************************************************************)
\* !v.parentId : unset, or set to the empty string
ParentIdFalsy(v) == ~IsSome(v.parentId) \/ Get(v.parentId) = << >>

RECURSIVE getParentVariablesFrom(_, _)
getParentVariablesFrom(variables, i) ==
  IF i > Len(variables) THEN << >>
  ELSE (IF ParentIdFalsy(variables[i]) THEN << variables[i] >> ELSE << >>)
       \o getParentVariablesFrom(variables, i + 1)

getParentVariables(variables) == getParentVariablesFrom(variables, 1)

RECURSIVE getChildVariablesFrom(_, _, _)
getChildVariablesFrom(variables, parentId, i) ==
  IF i > Len(variables) THEN << >>
  ELSE (IF IsSome(variables[i].parentId) /\ Get(variables[i].parentId) = parentId
        THEN << variables[i] >> ELSE << >>)
       \o getChildVariablesFrom(variables, parentId, i + 1)

getChildVariables(variables, parentId) == getChildVariablesFrom(variables, parentId, 1)

\* child.bitPosition ?? 0
BitPositionOrDefault(child) == IF IsSome(child.bitPosition) THEN Get(child.bitPosition) ELSE 0

\* Variant of bitKey: the position is not padded.
bitKeyUnpadded(child) ==
  << "b", "i", "t", "_" >> \o NumToString(BitPositionOrDefault(child))

\* `bit_${(child.bitPosition ?? 0).toString().padStart(2, '0')}`
bitKey(child) ==
  << "b", "i", "t", "_" >> \o PadStart(NumToString(BitPositionOrDefault(child)), 2, "0")

\* record[key] = value : replaces the value of an existing key in place,
\* appends a new key otherwise.
SetKey(record, key, value) ==
  IF \E i \in 1..Len(record) : record[i].key = key
  THEN [ i \in 1..Len(record) |->
           IF record[i].key = key THEN [ key |-> key, value |-> value ] ELSE record[i] ]
  ELSE Append(record, [ key |-> key, value |-> value ])

RECURSIVE collectBitMappings(_, _, _)
collectBitMappings(children, i, acc) ==
  IF i > Len(children) THEN acc
  ELSE collectBitMappings(children, i + 1,
         SetKey(acc, bitKey(children[i]),
                [ address      |-> children[i].plc_reg_add,
                  description  |-> children[i].description,
                  bit_position |-> BitPositionOrDefault(children[i]) ]))

\* Variant of denormalizeVariable: the bits are read from the parent's
\* children array.
denormalizeVariableFromChildren(variables, variable) ==
  [ plc_reg_add   |-> variable.plc_reg_add,
    data_type     |-> variable.data_type,
    opcua_reg_add |-> variable.opcua_reg_add,
    description   |-> variable.description,
    metadata      |->
      IF variable.type = "channel" /\ variable.hasChildren = Some(TRUE)
      THEN LET children == IF IsSome(variable.children)
                           THEN Get(variable.children) ELSE << >>
           IN Some([ bit_count    |-> Len(children),
                     bit_mappings |-> collectBitMappings(children, 1, << >>) ])
      ELSE None ]

\* Variant of denormalizeVariable: every channel gets metadata, also one
\* whose hasChildren is false.
denormalizeVariableAnyChannel(variables, variable) ==
  [ plc_reg_add   |-> variable.plc_reg_add,
    data_type     |-> variable.data_type,
    opcua_reg_add |-> variable.opcua_reg_add,
    description   |-> variable.description,
    metadata      |->
      IF variable.type = "channel"
      THEN LET children == getChildVariables(variables, variable.id)
           IN Some([ bit_count    |-> Len(children),
                     bit_mappings |-> collectBitMappings(children, 1, << >>) ])
      ELSE None ]

denormalizeVariable(variables, variable) ==
  [ plc_reg_add   |-> variable.plc_reg_add,
    data_type     |-> variable.data_type,
    opcua_reg_add |-> variable.opcua_reg_add,
    description   |-> variable.description,
    metadata      |->
      IF variable.type = "channel" /\ variable.hasChildren = Some(TRUE)
      THEN LET children == getChildVariables(variables, variable.id)
           IN Some([ bit_count    |-> Len(children),
                     bit_mappings |-> collectBitMappings(children, 1, << >>) ])
      ELSE None ]

\* normalizedPLC.plc_no || 1
plcNoOrDefault(plc_no) ==
  IF IsSome(plc_no) /\ Get(plc_no) # 0 THEN Get(plc_no) ELSE 1

denormalizePLC(normalizedPLC) ==
  LET parentVariables == getParentVariables(normalizedPLC.variables)
  IN [ plc_name         |-> normalizedPLC.plc_name,
       plc_no           |-> Some(plcNoOrDefault(normalizedPLC.plc_no)),
       plc_ip           |-> normalizedPLC.plc_ip,
       opcua_url        |-> normalizedPLC.opcua_url,
       address_mappings |->
         Some([ i \in 1..Len(parentVariables) |->
                  denormalizeVariable(normalizedPLC.variables, parentVariables[i]) ]) ]

(***************************************************************************)
(* groupPLCsByServer                                                       *)
(* (src/shared/normalization.ts and, with the same body, ServersPage.tsx)  *)
(*                                                                         *)
(* The function reads opcua_url, is_connected and last_checked of a PLC;   *)
(* last_checked is optional and is a time in milliseconds when set.        *)
(***************************************************************************)
RECURSIVE groupedKeysFrom(_, _, _)
\* The keys of the Map in insertion order: each URL at its first occurrence.
groupedKeysFrom(plcs, i, keys) ==
  IF i > Len(plcs) THEN keys
  ELSE groupedKeysFrom(plcs, i + 1,
         IF \E k \in 1..Len(keys) : keys[k] = plcs[i].opcua_url
         THEN keys ELSE Append(keys, plcs[i].opcua_url))

RECURSIVE serverPlcsFrom(_, _, _)
\* The array stored under a key: the PLCs with that URL, in input order.
serverPlcsFrom(plcs, url, i) ==
  IF i > Len(plcs) THEN << >>
  ELSE (IF plcs[i].opcua_url = url THEN << plcs[i] >> ELSE << >>)
       \o serverPlcsFrom(plcs, url, i + 1)

RECURSIVE connectedFrom(_, _)
\* serverPlcs.filter(p => p.is_connected).length
connectedFrom(serverPlcs, i) ==
  IF i > Len(serverPlcs) THEN 0
  ELSE (IF serverPlcs[i].is_connected THEN 1 ELSE 0) + connectedFrom(serverPlcs, i + 1)

\* new Date(p.last_checked ?? 0).getTime()
lastCheckedTime(p) == IF IsSome(p.last_checked) THEN Get(p.last_checked) ELSE 0

\* Math.max(...serverPlcs.map(...)) of a non-empty array
maxLastChecked(serverPlcs) ==
  CHOOSE t \in { lastCheckedTime(serverPlcs[i]) : i \in 1..Len(serverPlcs) } :
    \A i \in 1..Len(serverPlcs) : lastCheckedTime(serverPlcs[i]) <= t

\* Variant of groupStatus: every() in place of some().
groupStatusEvery(serverPlcs) ==
  IF \A i \in 1..Len(serverPlcs) : serverPlcs[i].is_connected
  THEN "connected" ELSE "disconnected"

groupStatus(serverPlcs) ==
  IF \E i \in 1..Len(serverPlcs) : serverPlcs[i].is_connected
  THEN "connected" ELSE "disconnected"

serverGroup(plcs, url) ==
  LET serverPlcs == serverPlcsFrom(plcs, url, 1)
  IN [ serverUrl      |-> url,
       plcs           |-> serverPlcs,
       connectedCount |-> connectedFrom(serverPlcs, 1),
       totalCount     |-> Len(serverPlcs),
       status         |-> groupStatus(serverPlcs),
       lastUpdated    |-> maxLastChecked(serverPlcs) ]

groupPLCsByServer(plcs) ==
  LET keys == groupedKeysFrom(plcs, 1, << >>)
  IN [ k \in 1..Len(keys) |-> serverGroup(plcs, keys[k]) ]

(***************************************************************************)
(* filterVariables                                                         *)
(***************************************************************************)
\* Variant of variableMatches: the description is not searched.
variableMatchesNoDescription(variable, query) ==
  \/ Includes(ToLowerCase(variable.plc_reg_add), query)
  \/ Includes(ToLowerCase(variable.opcua_reg_add), query)

variableMatches(variable, query) ==
  \/ Includes(ToLowerCase(variable.plc_reg_add), query)
  \/ Includes(ToLowerCase(variable.opcua_reg_add), query)
  \/ Includes(ToLowerCase(variable.description), query)

RECURSIVE filterFrom(_, _, _)
filterFrom(variables, query, i) ==
  IF i > Len(variables) THEN << >>
  ELSE (IF variableMatches(variables[i], query) THEN << variables[i] >> ELSE << >>)
       \o filterFrom(variables, query, i + 1)

\* Variant of filterVariables: the scan starts at the second variable.
filterVariablesSkipFirst(variables, searchQuery) ==
  IF Trim(searchQuery) = << >> THEN variables
  ELSE filterFrom(variables, ToLowerCase(searchQuery), 2)

filterVariables(variables, searchQuery) ==
  IF Trim(searchQuery) = << >> THEN variables
  ELSE filterFrom(variables, ToLowerCase(searchQuery), 1)

(***************************************************************************)
(* Input documents of the normalization specification.                     *)
(***************************************************************************)
\* Logical node names: the empty string, a plain name, and a name that
\* reads like the id of a bit row of the plain name.
Names == { << >>, << "P" >>, << "P", ":", "0" >> }

\* Entries of a bit_mappings record: two canonical keys, and a free-form
\* key that declares bit position 0 a second time.
BitPool ==
  { [ key   |-> << "b", "i", "t", "_", "0", "0" >>,
      value |-> [ address |-> << "D", "1", ".", "0" >>, description |-> << "l", "o" >>,
                  bit_position |-> 0 ] ],
    [ key   |-> << "b", "i", "t", "_", "1", "2" >>,
      value |-> [ address |-> << "D", "1", ".", "c" >>, description |-> << "h", "i" >>,
                  bit_position |-> 12 ] ],
    [ key   |-> << "x" >>,
      value |-> [ address |-> << "D", "9" >>, description |-> << "d", "u", "p" >>,
                  bit_position |-> 0 ] ] }

\* Records have pairwise distinct keys.
BitRecords(n) ==
  { b \in SeqsUpTo(BitPool, n) :
      \A i, j \in 1..Len(b) : i # j => b[i].key # b[j].key }

MetadataOf(bits) == Some([ bit_count |-> Len(bits), bit_mappings |-> bits ])

OneBit == CHOOSE b \in BitRecords(1) : Len(b) = 1 /\ b[1].value.bit_position = 12

Mapping(name, type, metadata) ==
  [ plc_reg_add   |-> << "D", "1" >>,
    data_type     |-> type,
    opcua_reg_add |-> name,
    description   |-> << "m" >>,
    metadata      |-> metadata ]

\* Mappings with at most one declared bit.
SimpleMappings ==
  { Mapping(n, tm[1], tm[2]) :
      n \in Names,
      tm \in { << "bool", None >>, << "word", None >>, << "word", MetadataOf(OneBit) >>,
               << "channel", None >>, << "channel", MetadataOf(OneBit) >> } }

\* Channels with every bit_mappings record up to MaxBits entries.
RichMappings ==
  { Mapping(n, "channel", MetadataOf(b)) : n \in Names, b \in BitRecords(MaxBits) }

\* Mapping lists of one PLC: at most one of the mappings is a rich channel.
MappingLists ==
  { ms \in SeqsUpTo(SimpleMappings \cup RichMappings, MaxMappings) :
      \A i, j \in 1..Len(ms) :
        (i # j /\ ms[i] \notin SimpleMappings) => ms[j] \in SimpleMappings }

RawPLC(name, no, url, mappings) ==
  [ plc_name         |-> name,
    plc_no           |-> no,
    plc_ip           |-> << "1", "0", ".", "0", ".", "0", ".", "1" >>,
    opcua_url        |-> url,
    address_mappings |-> mappings ]

Document(kind, items) == [ plcs |-> [ kind |-> kind, items |-> items ] ]

\* One PLC with any of the mapping lists.
SinglePLCDocs ==
  { Document("array", << RawPLC(<< "L", "1" >>, Some(2), << "u", "1" >>, Some(ms)) >>) :
      ms \in MappingLists }

\* PLC entries of the documents that hold several PLCs: one without plc_no
\* and without address_mappings, one with plc_no 0.
SmallPLCs ==
  { RawPLC(<< "L", "1" >>, Some(2), << "u", "1" >>,
           Some(<< Mapping(<< "P" >>, "bool", None) >>)),
    RawPLC(<< "L", "2" >>, None, << "u", "1" >>, None),
    RawPLC(<< "L", "3" >>, Some(0), << "u", "2" >>,
           Some(<< Mapping(<< "P" >>, "channel", MetadataOf(OneBit)) >>)) }

MultiPLCDocs == { Document("array", ps) : ps \in SeqsUpTo(SmallPLCs, MaxPLCs) }

\* Documents whose plcs field is missing or holds something else than an array.
InvalidDocs ==
  { Document(k, << >>) : k \in { "undefined", "null", "string", "object" } }

Documents == SinglePLCDocs \cup MultiPLCDocs \cup InvalidDocs

\* Identifiers Math.random() may produce, and readings of the clock.
GeneratedIds == { "k3x9", "q7m2" }
ClockReadings == { 1000, 2000 }

\* The two readings of the clock made for one PLC entry.
EntryReadings == [ last_checked : ClockReadings, created_at : ClockReadings ]

\* The number of PLC entries normalizePLCConfig maps over.
EntryCount(json) == IF PlcsInvalid(json) THEN 0 ELSE Len(json.plcs.items)

(***************************************************************************)
(* Inputs of the grouping and filtering specifications.                    *)
(***************************************************************************)
GroupPLCs ==
  [ opcua_url    : { << "A" >>, << "a" >>, << "A", "/" >> },
    is_connected : BOOLEAN,
    last_checked : { None, Some(1000) } ]

FilterVariables ==
  { baseVariable([ plc_reg_add   |-> r,
                   data_type     |-> "bool",
                   opcua_reg_add |-> o,
                   description   |-> d,
                   metadata      |-> None ]) :
      r \in { << "D", "1" >> },
      o \in { << "A", "b" >>, << "b" >> },
      d \in { << >>, << "a", " ", "B" >> } }

Queries ==
  { << >>, << " " >>, << "\f" >>, << " ", "", " " >>, << "a" >>, << "B" >>, << "a", "b" >>, << " ", "b" >>,
    << "d", "1" >>, << "b", " " >>, << "z" >> }

(***************************************************************************)
(* Normalization specification: a document is drawn, and the library       *)
(* functions are applied to it.                                            *)
(***************************************************************************)
IdleBits == bitInput = None /\ bitRows = None
IdleServer ==
  /\ plcIpUnique = TRUE
  /\ plcRows = << >> /\ nodeRows = << >> /\ nextPlcId = 1 /\ nextNodeId = 1
  /\ pending = << >> /\ lastRequest = None /\ guarded = { } /\ released = { }
IdleDesc ==
  /\ userDescriptions = << >>
  /\ descClock = 0
  /\ uuidsMade = 0
  /\ lastSave = None
  /\ savedPairs = { }
IdleSocket == socket = None /\ sockets = << >> /\ emitted = << >> /\ lastCall = None
IdleOthers == IdleBits /\ IdleServer /\ IdleDesc /\ IdleSocket

IdleGroup == groupInput = << >> /\ groups = None
IdleFilter ==
  filterInput = << >> /\ filterQuery = << >> /\ filtered = None /\ refiltered = None
IdleNorm ==
  doc = Document("undefined", << >>) /\ expanded = None /\ normalized = None
  /\ previous = None /\ denormalized = None /\ edited = None

InitNorm ==
  /\ doc \in Documents
  /\ expanded = None
  /\ normalized = None
  /\ previous = None
  /\ denormalized = None
  /\ edited = None
  /\ IdleGroup
  /\ IdleFilter
  /\ IdleOthers

\* One call of normalizeAddressMapping, on a mapping of the document.
ExpandMapping ==
  /\ ~PlcsInvalid(doc)
  /\ \E p \in 1..Len(doc.plcs.items) :
       \E m \in 1..Len(MappingsOf(doc.plcs.items[p])) :
         LET mapping == MappingsOf(doc.plcs.items[p])[m]
         IN /\ expanded' = Some([ mapping   |-> mapping,
                                  variables |-> normalizeAddressMapping(mapping) ])
            /\ doc' = [ doc EXCEPT
                          !.plcs.items[p].address_mappings =
                            Some([ Get(@) EXCEPT ![m] = mappingAfter(mapping) ]) ]
  /\ normalized' = None
  /\ previous' = None
  /\ denormalized' = None
  /\ edited' = None
  /\ UNCHANGED << groupVars, filterVars, bitVars, serverVars, descVars, socketVars >>

\* The first call of normalizePLCConfig on the document, which the caller
\* holds on to: doc is the document as the call leaves it.
Normalize ==
  /\ normalized = None
  /\ \E ids \in [ 1..EntryCount(doc) -> GeneratedIds ] :
       \E times \in [ 1..EntryCount(doc) -> EntryReadings ] :
         normalized' = Some(normalizePLCConfig(doc, ids, times))
  /\ doc' = jsonAfter(doc)
  /\ expanded' = None
  /\ previous' = None
  /\ denormalized' = None
  /\ edited' = None
  /\ UNCHANGED << groupVars, filterVars, bitVars, serverVars, descVars, socketVars >>

\* The second call of normalizePLCConfig, on the document as the first call
\* left it; the result of the first call is kept in previous.
NormalizeAgain ==
  /\ IsSome(normalized)
  /\ previous = None
  /\ \E ids \in [ 1..EntryCount(doc) -> GeneratedIds ] :
       \E times \in [ 1..EntryCount(doc) -> EntryReadings ] :
         normalized' = Some(normalizePLCConfig(doc, ids, times))
  /\ doc' = jsonAfter(doc)
  /\ previous' = normalized
  /\ expanded' = None
  /\ denormalized' = None
  /\ edited' = None
  /\ UNCHANGED << groupVars, filterVars, bitVars, serverVars, descVars, socketVars >>

\* One call of denormalizePLC on a PLC of the last normalization.
Denormalize ==
  /\ IsSome(normalized)
  /\ ~Get(normalized).threw
  /\ \E i \in 1..Len(Get(normalized).value) :
       denormalized' = Some([ index  |-> i,
                              result |-> denormalizePLC(Get(normalized).value[i]) ])
  /\ edited' = None
  /\ UNCHANGED << doc, expanded, normalized, previous, groupVars, filterVars, bitVars, serverVars, descVars, socketVars >>

NextNorm == ExpandMapping \/ Normalize \/ Denormalize

SpecNorm == InitNorm /\ [][NextNorm]_vars

(***************************************************************************)
(* Denormalization of an edited PLC: the PLC that denormalizePLC was last  *)
(* applied to is passed again, with the children arrays of its parents     *)
(* emptied or removed and the flat variables list otherwise the same.      *)
(***************************************************************************)
ChildrenEdits == { "absent", "empty" }

WithChildren(plc, edit) ==
  [ plc EXCEPT !.variables =
      [ k \in 1..Len(plc.variables) |->
          IF IsSome(plc.variables[k].children)
          THEN [ plc.variables[k] EXCEPT
                   !.children = IF edit = "absent" THEN None ELSE Some(<< >>) ]
          ELSE plc.variables[k] ] ]

DenormalizeEdited ==
  /\ IsSome(denormalized)
  /\ \E edit \in ChildrenEdits :
       edited' =
         Some([ index    |-> Get(denormalized).index,
                children |-> edit,
                result   |-> denormalizePLC(
                               WithChildren(Get(normalized).value[Get(denormalized).index],
                                            edit)) ])
  /\ UNCHANGED << doc, expanded, normalized, previous, denormalized,
                  groupVars, filterVars, bitVars, serverVars, descVars, socketVars >>

NextEdit == Normalize \/ Denormalize \/ DenormalizeEdited

SpecEdit == InitNorm /\ [][NextEdit]_vars

(***************************************************************************)
(* Repeated normalization of one document.                                 *)
(***************************************************************************)
NextRepeat == Normalize \/ NormalizeAgain

SpecRepeat == InitNorm /\ [][NextRepeat]_vars

(***************************************************************************)
(* Grouping specification.                                                 *)
(***************************************************************************)
InitGroup ==
  /\ groupInput \in SeqsUpTo(GroupPLCs, MaxGroupPLCs)
  /\ groups = None
  /\ IdleNorm
  /\ IdleFilter
  /\ IdleOthers

Group ==
  /\ groups' = Some(groupPLCsByServer(groupInput))
  /\ UNCHANGED << groupInput, normVars, filterVars, bitVars, serverVars, descVars, socketVars >>

NextGroup == Group

SpecGroup == InitGroup /\ [][NextGroup]_vars

(***************************************************************************)
(* Filtering specification.                                                *)
(***************************************************************************)
InitFilter ==
  /\ filterInput \in SeqsUpTo(FilterVariables, MaxFilterVars)
  /\ filterQuery \in Queries
  /\ filtered = None
  /\ refiltered = None
  /\ IdleNorm
  /\ IdleGroup
  /\ IdleOthers

\* filterVariables(list, q)
Filter ==
  /\ filtered' = Some(filterVariables(filterInput, filterQuery))
  /\ refiltered' = None
  /\ UNCHANGED << filterInput, filterQuery, normVars, groupVars, bitVars, serverVars, descVars, socketVars >>

\* filterVariables applied to the result of the last call, with the same query
FilterAgain ==
  /\ IsSome(filtered)
  /\ refiltered' = Some(filterVariables(Get(filtered), filterQuery))
  /\ UNCHANGED << filterInput, filterQuery, filtered, normVars, groupVars, bitVars, serverVars, descVars, socketVars >>

NextFilter == Filter \/ FilterAgain

SpecFilter == InitFilter /\ [][NextFilter]_vars

(***************************************************************************)
(* Vocabulary of the properties.                                           *)
(***************************************************************************)
NormalizedOk == IsSome(normalized) /\ ~Get(normalized).threw

NormalizedPLCs == Get(normalized).value

\* The raw entry that the p-th normalized PLC was made from.
RawEntry(p) == doc.plcs.items[p]

\* The k-th smallest element of a finite set of integers.
KthOf(S, k) == CHOOSE i \in S : Cardinality({ j \in S : j <= i }) = k

\* s restricted to the indices in S, in order.
Restrict(s, S) == [ k \in 1..Cardinality(S) |-> s[KthOf(S, k)] ]

\* "bit_" followed by the position written with at least two digits.
ZeroPaddedKey(pos) ==
  << "b", "i", "t", "_" >>
    \o (IF pos < 10 THEN << "0", Digits[pos + 1] >> ELSE NatToString(pos))

\* A bit_mappings record as the set of its entries.
EntrySet(record) == { record[i] : i \in 1..Len(record) }

DistinctKeys(record) ==
  \A i, j \in 1..Len(record) : i # j => record[i].key # record[j].key

\* Well-formed raw PLC entry: the mappings are present and have pairwise
\* distinct, non-empty logical names, every channel carries bit metadata,
\* and the bit positions of a channel are pairwise distinct naturals.
WellFormed(cfg) ==
  /\ IsSome(cfg.address_mappings)
  /\ LET ms == Get(cfg.address_mappings)
     IN /\ \A i \in 1..Len(ms) : ms[i].opcua_reg_add # << >>
        /\ \A i, j \in 1..Len(ms) : i # j => ms[i].opcua_reg_add # ms[j].opcua_reg_add
        /\ \A i \in 1..Len(ms) :
             ms[i].data_type = "channel" =>
               /\ HasBitMappings(ms[i])
               /\ \A a, b \in 1..Len(BitEntries(ms[i])) :
                    a # b => BitEntries(ms[i])[a].value.bit_position
                               # BitEntries(ms[i])[b].value.bit_position
               /\ \A a \in 1..Len(BitEntries(ms[i])) :
                    BitEntries(ms[i])[a].value.bit_position >= 0

\* The round trip reproduces the mappings of cfg in out.
SameMappings(cfg, out) ==
  LET ms == Get(cfg.address_mappings)
      os == Get(out.address_mappings)
  IN /\ IsSome(out.address_mappings)
     /\ Len(os) = Len(ms)
     /\ \A i \in 1..Len(ms) :
          /\ os[i].plc_reg_add = ms[i].plc_reg_add
          /\ os[i].data_type = ms[i].data_type
          /\ os[i].opcua_reg_add = ms[i].opcua_reg_add
          /\ os[i].description = ms[i].description
          /\ ms[i].data_type = "channel" =>
               /\ IsSome(os[i].metadata)
               /\ DistinctKeys(Get(os[i].metadata).bit_mappings)
               /\ EntrySet(Get(os[i].metadata).bit_mappings)
                    = { [ key   |-> ZeroPaddedKey(e.value.bit_position),
                          value |-> e.value ] : e \in EntrySet(BitEntries(ms[i])) }

(***************************************************************************)
(* C1: round trip. Whenever denormalizePLC has been applied to the         *)
(* normalization of a well-formed raw PLC entry, its address_mappings are  *)
(* those of the entry, in order, with equal plc_reg_add, data_type,        *)
(* opcua_reg_add and description, and every channel has a bit_mappings     *)
(* record with the same (address, description, bit_position) entries       *)
(* under the zero-padded keys.                                             *)
(***************************************************************************)
C1_RoundTrip ==
  (IsSome(denormalized) /\ WellFormed(RawEntry(Get(denormalized).index)))
    => SameMappings(RawEntry(Get(denormalized).index), Get(denormalized).result)

\* A well-formed entry with a bool and a channel of two bits declared out
\* of order has made the round trip.
C1_Witness ==
  /\ IsSome(denormalized)
  /\ WellFormed(RawEntry(Get(denormalized).index))
  /\ LET ms == Get(RawEntry(Get(denormalized).index).address_mappings)
     IN /\ Len(ms) = 2
        /\ ms[1].data_type = "bool"
        /\ ms[2].data_type = "channel"
        /\ Len(BitEntries(ms[2])) = 2
        /\ BitEntries(ms[2])[1].value.bit_position = 12
        /\ Len(Get(Get(Get(denormalized).result.address_mappings)[2].metadata).bit_mappings) = 2

\* v's parentId names exactly one variable of the list, a parent with children.
Linked(variables, v) ==
  /\ Cardinality({ j \in 1..Len(variables) : variables[j].id = Get(v.parentId) }) = 1
  /\ \A j \in 1..Len(variables) :
       variables[j].id = Get(v.parentId) => variables[j].hasChildren = Some(TRUE)

DistinctIds(variables) ==
  \A i, j \in 1..Len(variables) : i # j => variables[i].id # variables[j].id

\* Every variable of the list that has a parentId is linked.
AllLinked(variables) ==
  \A i \in 1..Len(variables) :
    IsSome(variables[i].parentId) => Linked(variables, variables[i])

\* The channels of the mapping list that get children: a channel with a
\* bit_mappings record of at least one entry.
ChannelsWithBits(ms) ==
  { k \in 1..Len(ms) :
      ms[k].data_type = "channel" /\ HasBitMappings(ms[k]) /\ Len(BitEntries(ms[k])) > 0 }

\* No channel that gets children shares its opcua_reg_add with another
\* mapping of the list or with the id of a bit row of the list.
ParentNamesUnshared(ms) ==
  \A k \in ChannelsWithBits(ms) :
    /\ \A j \in 1..Len(ms) : j # k => ms[j].opcua_reg_add # ms[k].opcua_reg_add
    /\ \A j \in ChannelsWithBits(ms) : \A b \in 1..Len(BitEntries(ms[j])) :
         ms[k].opcua_reg_add
           # ms[j].opcua_reg_add \o << ":" >>
               \o NumToString(BitEntries(ms[j])[b].value.bit_position)

(***************************************************************************)
(* C2: parent/child linkage. As claimed: in the variables list of every    *)
(* normalized PLC, every variable that has a parentId finds exactly one    *)
(* variable of the list whose id is that parentId, and that variable has   *)
(* hasChildren true.                                                       *)
(***************************************************************************)
C2_LinkageAsClaimed ==
  NormalizedOk =>
    \A p \in 1..Len(NormalizedPLCs) :
      \A i \in 1..Len(NormalizedPLCs[p].variables) :
        IsSome(NormalizedPLCs[p].variables[i].parentId)
          => Linked(NormalizedPLCs[p].variables, NormalizedPLCs[p].variables[i])

\* C2 as amended: the linkage holds in the variables list of a normalized
\* PLC exactly when no channel of the PLC that declares a bit shares its
\* opcua_reg_add with another mapping of the PLC or with the id '{Q}:{n}'
\* of a bit row of a channel Q of the PLC.
C2_LinkageUnsharedNames ==
  NormalizedOk =>
    \A p \in 1..Len(NormalizedPLCs) :
      ParentNamesUnshared(MappingsOf(RawEntry(p))) <=> AllLinked(NormalizedPLCs[p].variables)

\* A PLC whose parent names are unshared and whose ids are not distinct has
\* been normalized: a bool named "P:0" beside a channel "P" that declares
\* bit position 0 twice, which gives three rows with the id "P:0", two of
\* them children of "P".
C2_Witness ==
  /\ NormalizedOk
  /\ Len(NormalizedPLCs) = 1
  /\ LET ms == MappingsOf(RawEntry(1))
         vs == NormalizedPLCs[1].variables
     IN /\ Len(ms) = 2
        /\ ms[1].data_type = "bool"
        /\ ms[1].opcua_reg_add = << "P", ":", "0" >>
        /\ ms[2].opcua_reg_add = << "P" >>
        /\ ChannelsWithBits(ms) = { 2 }
        /\ ParentNamesUnshared(ms)
        /\ ~DistinctIds(vs)
        /\ Cardinality({ i \in 1..Len(vs) : vs[i].id = << "P", ":", "0" >> }) = 3
        /\ Cardinality({ i \in 1..Len(vs) : vs[i].parentId = Some(<< "P" >>) }) = 2
        /\ AllLinked(vs)

(***************************************************************************)
(* C3: bit expansion count. A channel mapping whose bit_mappings has K     *)
(* entries normalizes to 1 + K variables, the parent followed by its K     *)
(* children; the children carry exactly the K declared bit positions, and  *)
(* the parent's children array is sorted ascending by bitPosition.         *)
(***************************************************************************)
IsBitChannel(mapping) == mapping.data_type = "channel" /\ HasBitMappings(mapping)

DeclaredPositions(mapping) ==
  [ i \in 1..Len(BitEntries(mapping)) |-> BitEntries(mapping)[i].value.bit_position ]

\* How many times x occurs in the sequence s.
Occurrences(s, x) == Cardinality({ i \in 1..Len(s) : s[i] = x })

C3_BitExpansion ==
  (IsSome(expanded) /\ IsBitChannel(Get(expanded).mapping)) =>
    LET m  == Get(expanded).mapping
        vs == Get(expanded).variables
        K  == Len(BitEntries(m))
    IN /\ Len(vs) = 1 + K
       /\ vs[1].parentId = None
       /\ vs[1].hasChildren = Some(TRUE)
       /\ IsSome(vs[1].children)
       /\ Get(vs[1].children) = SubSeq(vs, 2, 1 + K)
       /\ \A i \in 2..(1 + K) :
            /\ vs[i].parentId = Some(m.opcua_reg_add)
            /\ IsSome(vs[i].bitPosition)
       /\ \A x \in { DeclaredPositions(m)[i] : i \in 1..K }
                 \cup { Get(vs[i].bitPosition) : i \in 2..(1 + K) } :
            Occurrences([ i \in 1..K |-> Get(vs[i + 1].bitPosition) ], x)
              = Occurrences(DeclaredPositions(m), x)
       /\ \A i, j \in 1..K :
            i < j => Get(Get(vs[1].children)[i].bitPosition)
                       <= Get(Get(vs[1].children)[j].bitPosition)

\* A channel that declares bit 12 before bit 0 has been expanded.
C3_Witness ==
  /\ IsSome(expanded)
  /\ IsBitChannel(Get(expanded).mapping)
  /\ Len(BitEntries(Get(expanded).mapping)) = 3
  /\ DeclaredPositions(Get(expanded).mapping)[1] = 12
  /\ Len(Get(expanded).variables) = 4

(***************************************************************************)
(* C4: counts. registerCount is the length of the variables list;          *)
(* boolCount is the number of bool mappings plus the bit_mappings entries  *)
(* of every channel mapping that has metadata; channelCount is the number  *)
(* of channel mappings. One bool mapping and one channel with 3 bits give  *)
(* 5, 4 and 1.                                                             *)
(***************************************************************************)
BoolMappings(ms) == { i \in 1..Len(ms) : ms[i].data_type = "bool" }

ChannelMappings(ms) == { i \in 1..Len(ms) : ms[i].data_type = "channel" }

DeclaredBits(ms) ==
  UNION { { << i, b >> : b \in 1..Len(BitEntries(ms[i])) } :
            i \in { c \in ChannelMappings(ms) : HasBitMappings(ms[c]) } }

OneBoolOneThreeBitChannel(ms) ==
  /\ Len(ms) = 2
  /\ Cardinality(BoolMappings(ms)) = 1
  /\ \E c \in ChannelMappings(ms) : HasBitMappings(ms[c]) /\ Len(BitEntries(ms[c])) = 3

C4_Counts ==
  NormalizedOk =>
    \A p \in 1..Len(NormalizedPLCs) :
      LET ms  == MappingsOf(RawEntry(p))
          plc == NormalizedPLCs[p]
      IN /\ plc.registerCount = Len(plc.variables)
         /\ plc.boolCount = Cardinality(BoolMappings(ms)) + Cardinality(DeclaredBits(ms))
         /\ plc.channelCount = Cardinality(ChannelMappings(ms))
         /\ OneBoolOneThreeBitChannel(ms) =>
              /\ plc.registerCount = 5
              /\ plc.boolCount = 4
              /\ plc.channelCount = 1

\* The PLC of the example has been normalized.
C4_Witness ==
  /\ NormalizedOk
  /\ Len(NormalizedPLCs) = 1
  /\ OneBoolOneThreeBitChannel(MappingsOf(RawEntry(1)))
  /\ NormalizedPLCs[1].registerCount = 5

(***************************************************************************)
(* C5: missing-plcs failure. normalizePLCConfig throws exactly when the    *)
(* plcs field is missing or is not an array, and then returns nothing;     *)
(* otherwise it returns one normalized PLC per entry, in order.            *)
(***************************************************************************)
C5_MissingPlcs ==
  IsSome(normalized) =>
    /\ Get(normalized).threw <=> doc.plcs.kind # "array"
    /\ Get(normalized).threw => Get(normalized).value = << >>
    /\ ~Get(normalized).threw =>
         /\ Len(NormalizedPLCs) = Len(doc.plcs.items)
         /\ \A p \in 1..Len(NormalizedPLCs) :
              /\ NormalizedPLCs[p].plc_name = RawEntry(p).plc_name
              /\ NormalizedPLCs[p].plc_no = RawEntry(p).plc_no
              /\ NormalizedPLCs[p].plc_ip = RawEntry(p).plc_ip
              /\ NormalizedPLCs[p].opcua_url = RawEntry(p).opcua_url

\* The call has thrown on a document whose plcs field is a string.
C5_Witness ==
  /\ IsSome(normalized)
  /\ doc.plcs.kind = "string"
  /\ Get(normalized).threw

(***************************************************************************)
(* C6: bool passthrough. A mapping with data_type "bool" normalizes to     *)
(* exactly one variable, with hasChildren unset and no parentId, whose     *)
(* plc_reg_add, opcua_reg_add, description and data_type are the mapping's.*)
(***************************************************************************)
C6_BoolPassthrough ==
  (IsSome(expanded) /\ Get(expanded).mapping.data_type = "bool") =>
    LET m  == Get(expanded).mapping
        vs == Get(expanded).variables
    IN /\ Len(vs) = 1
       /\ vs[1].hasChildren = None
       /\ vs[1].parentId = None
       /\ vs[1].plc_reg_add = m.plc_reg_add
       /\ vs[1].opcua_reg_add = m.opcua_reg_add
       /\ vs[1].description = m.description
       /\ vs[1].data_type = "bool"

\* A bool mapping has been normalized.
C6_Witness ==
  /\ IsSome(expanded)
  /\ Get(expanded).mapping.data_type = "bool"
  /\ Len(Get(expanded).variables) = 1

(***************************************************************************)
(* C7: grouping. groupPLCsByServer partitions the list by opcua_url: one   *)
(* group per distinct URL, each holding exactly the PLCs with its URL;     *)
(* totalCount is the member count, connectedCount the number of connected  *)
(* members, and status is "connected" iff some member is connected.        *)
(***************************************************************************)
WithUrl(url) == { i \in 1..Len(groupInput) : groupInput[i].opcua_url = url }

C7_Grouping ==
  IsSome(groups) =>
    LET gs == Get(groups)
    IN /\ Len(gs) = Cardinality({ groupInput[i].opcua_url : i \in 1..Len(groupInput) })
       /\ \A i \in 1..Len(groupInput) :
            Cardinality({ g \in 1..Len(gs) : gs[g].serverUrl = groupInput[i].opcua_url }) = 1
       /\ \A g \in 1..Len(gs) :
            /\ gs[g].plcs = Restrict(groupInput, WithUrl(gs[g].serverUrl))
            /\ gs[g].totalCount = Cardinality(WithUrl(gs[g].serverUrl))
            /\ gs[g].totalCount >= 1
            /\ gs[g].connectedCount
                 = Cardinality({ i \in WithUrl(gs[g].serverUrl) : groupInput[i].is_connected })
            /\ gs[g].status \in { "connected", "disconnected" }
            /\ gs[g].status = "connected"
                 <=> \E i \in WithUrl(gs[g].serverUrl) : groupInput[i].is_connected

\* The example of the specification: two PLCs on one URL, one of them
\* connected, and a disconnected PLC on another URL.
C7_Witness ==
  /\ IsSome(groups)
  /\ Len(groupInput) = 3
  /\ Len(Get(groups)) = 2
  /\ Get(groups)[1].connectedCount = 1
  /\ Get(groups)[1].totalCount = 2
  /\ Get(groups)[1].status = "connected"
  /\ Get(groups)[2].connectedCount = 0
  /\ Get(groups)[2].totalCount = 1
  /\ Get(groups)[2].status = "disconnected"

(***************************************************************************)
(* C8: filter idempotence. Filtering the result of filterVariables again   *)
(* with the same query returns that result.                                *)
(***************************************************************************)
C8_FilterIdempotent ==
  IsSome(refiltered) => Get(refiltered) = Get(filtered)

\* A query that keeps some variables and drops others has been applied twice.
C8_Witness ==
  /\ IsSome(refiltered)
  /\ Trim(filterQuery) # << >>
  /\ Len(Get(filtered)) >= 2
  /\ Len(Get(filtered)) < Len(filterInput)

(***************************************************************************)
(* C9: filter semantics. An empty or whitespace-only query returns the     *)
(* input unchanged; any other query returns, in input order, exactly the   *)
(* variables in which it occurs as a case-insensitive substring of         *)
(* plc_reg_add, opcua_reg_add or description.                              *)
(***************************************************************************)
Blank(q) == \A i \in 1..Len(q) : q[i] \in WhiteSpace

\* q occurs in s at some position, letter case ignored.
OccursIgnoringCase(s, q) ==
  \E i \in 1..(Len(s) - Len(q) + 1) :
    \A k \in 1..Len(q) : LowerChar(s[i + k - 1]) = LowerChar(q[k])

Matching(q) ==
  { i \in 1..Len(filterInput) :
      \/ OccursIgnoringCase(filterInput[i].plc_reg_add, q)
      \/ OccursIgnoringCase(filterInput[i].opcua_reg_add, q)
      \/ OccursIgnoringCase(filterInput[i].description, q) }

C9_FilterSemantics ==
  IsSome(filtered) =>
    IF Blank(filterQuery)
    THEN Get(filtered) = filterInput
    ELSE Get(filtered) = Restrict(filterInput, Matching(filterQuery))

\* The query " b" has matched the description "a B" only, and the result
\* keeps the first and the last of three variables.
C9_Witness ==
  /\ IsSome(filtered)
  /\ filterQuery = << " ", "b" >>
  /\ Len(filterInput) = 3
  /\ Get(filtered) = << filterInput[1], filterInput[3] >>
  /\ filterInput[2] # filterInput[1]

(***************************************************************************)
(* C10: upload never yields a connected PLC. Every PLC returned by         *)
(* normalizePLCConfig has status "maintenance" and is_connected false.     *)
(***************************************************************************)
C10_NeverConnected ==
  IsSome(normalized) =>
    \A p \in 1..Len(Get(normalized).value) :
      /\ Get(normalized).value[p].status = "maintenance"
      /\ Get(normalized).value[p].is_connected = FALSE

\* A document of two PLCs has been normalized.
C10_Witness ==
  /\ NormalizedOk
  /\ Len(NormalizedPLCs) = 2
  /\ NormalizedPLCs[1].plc_name # NormalizedPLCs[2].plc_name


\* The PLC that the last call of denormalizePLC was applied to, and its result.
DenormalizedInput == NormalizedPLCs[Get(denormalized).index]

DenormalizedMappings == Get(Get(denormalized).result.address_mappings)

\* The rows of a variables list that have no parentId.
WithoutParentId(variables) ==
  { i \in 1..Len(variables) : ~IsSome(variables[i].parentId) }

\* The mapping os[k] is the one made from the variable v.
MadeFrom(o, v) ==
  /\ o.plc_reg_add = v.plc_reg_add
  /\ o.data_type = v.data_type
  /\ o.opcua_reg_add = v.opcua_reg_add
  /\ o.description = v.description

(***************************************************************************)
(* C11: denormalization uses only parent variables. The address_mappings   *)
(* returned by denormalizePLC have exactly one entry per variable without  *)
(* a parentId, in the order of plc.variables, and no entry for a variable  *)
(* that has a parentId.                                                    *)
(***************************************************************************)
C11_ParentsOnly ==
  IsSome(denormalized) =>
    LET vs      == DenormalizedInput.variables
        parents == Restrict(vs, WithoutParentId(vs))
    IN /\ IsSome(Get(denormalized).result.address_mappings)
       /\ Len(DenormalizedMappings) = Len(parents)
       /\ \A k \in 1..Len(parents) : MadeFrom(DenormalizedMappings[k], parents[k])


(***************************************************************************)
(* C12: denormalization is independent of the nested children field. For   *)
(* a normalized PLC and its copy whose parents' children arrays are        *)
(* emptied or removed, denormalizePLC returns the same result.             *)
(***************************************************************************)
C12_ChildrenIgnored ==
  IsSome(edited) =>
    /\ Get(edited).index = Get(denormalized).index
    /\ Get(edited).result = Get(denormalized).result

\* A PLC with a channel of two bits has been denormalized with and without
\* the parent's children array, and both results carry the two bits.
C12_Witness ==
  /\ IsSome(edited)
  /\ Get(edited).children = "empty"
  /\ \E k \in 1..Len(DenormalizedInput.variables) :
       /\ IsSome(DenormalizedInput.variables[k].children)
       /\ Len(Get(DenormalizedInput.variables[k].children)) = 2
  /\ \E k \in 1..Len(Get(Get(edited).result.address_mappings)) :
       LET o == Get(Get(edited).result.address_mappings)[k]
       IN IsSome(o.metadata) /\ Len(Get(o.metadata).bit_mappings) = 2


(***************************************************************************)
(* C13: plc_no default. The plc_no of denormalizePLC's result is 1 when    *)
(* the normalized record has no plc_no, and the record's own plc_no        *)
(* otherwise.                                                              *)
(***************************************************************************)
C13_PlcNoDefault ==
  IsSome(denormalized) =>
    Get(denormalized).result.plc_no
      = (IF DenormalizedInput.plc_no = None THEN Some(1) ELSE DenormalizedInput.plc_no)


\* The mappings have pairwise distinct logical names.
DistinctNames(ms) ==
  \A i, j \in 1..Len(ms) : i # j => ms[i].opcua_reg_add # ms[j].opcua_reg_add

\* The bit positions declared inside each channel are pairwise distinct.
DistinctBitPositions(ms) ==
  \A i \in 1..Len(ms) :
    IsBitChannel(ms[i]) =>
      \A a, b \in 1..Len(BitEntries(ms[i])) :
        a # b => BitEntries(ms[i])[a].value.bit_position
                   # BitEntries(ms[i])[b].value.bit_position

\* No mapping is named like the id "P:n" of a bit row of a channel P.
NoNameLikeBitRow(ms) ==
  \A i, j \in 1..Len(ms) :
    IsBitChannel(ms[j]) =>
      \A b \in 1..Len(BitEntries(ms[j])) :
        ms[i].opcua_reg_add
          # ms[j].opcua_reg_add \o << ":" >>
              \o NumToString(BitEntries(ms[j])[b].value.bit_position)

(***************************************************************************)
(* C14: variable ids are unique within a PLC. As claimed: when the         *)
(* mappings of a PLC have pairwise distinct opcua_reg_add and the bit      *)
(* positions inside each channel are pairwise distinct, no two variables   *)
(* of the normalized list have the same id.                                *)
(***************************************************************************)
C14_UniqueIdsAsClaimed ==
  NormalizedOk =>
    \A p \in 1..Len(NormalizedPLCs) :
      (DistinctNames(MappingsOf(RawEntry(p))) /\ DistinctBitPositions(MappingsOf(RawEntry(p))))
        => DistinctIds(NormalizedPLCs[p].variables)

\* C14 as amended: the ids are unique when, in addition, no mapping of the
\* PLC is named like the id "P:n" of a bit row of a channel P of that PLC.
C14_UniqueIds ==
  NormalizedOk =>
    \A p \in 1..Len(NormalizedPLCs) :
      ( /\ DistinctNames(MappingsOf(RawEntry(p)))
        /\ DistinctBitPositions(MappingsOf(RawEntry(p)))
        /\ NoNameLikeBitRow(MappingsOf(RawEntry(p))) )
        => DistinctIds(NormalizedPLCs[p].variables)

\* A PLC of two mappings that meets the three conditions, one of them a
\* channel of two bits, has been normalized.
C14_Witness ==
  /\ NormalizedOk
  /\ Len(NormalizedPLCs) = 1
  /\ LET ms == MappingsOf(RawEntry(1))
     IN /\ Len(ms) = 2
        /\ DistinctNames(ms)
        /\ DistinctBitPositions(ms)
        /\ NoNameLikeBitRow(ms)
        /\ \E i \in 1..2 : IsBitChannel(ms[i]) /\ Len(BitEntries(ms[i])) = 2
  /\ Len(NormalizedPLCs[1].variables) >= 4


(***************************************************************************)
(* C15: hasChildren is true only on channel parents with at least one bit  *)
(* child. In every normalized variables list, a variable with hasChildren  *)
(* true has type "channel" and some variable of the list has its id as     *)
(* parentId, also when the bit_mappings record is present but empty.       *)
(***************************************************************************)
C15_HasChildrenMeansChild ==
  NormalizedOk =>
    \A p \in 1..Len(NormalizedPLCs) :
      LET vs == NormalizedPLCs[p].variables
      IN \A i \in 1..Len(vs) :
           vs[i].hasChildren = Some(TRUE) =>
             /\ vs[i].type = "channel"
             /\ \E j \in 1..Len(vs) : vs[j].parentId = Some(vs[i].id)


(***************************************************************************)
(* Vocabulary for the flat order of a PLC's variables list.                *)
(***************************************************************************)
\* Number of rows a mapping contributes: the parent, and one per bit entry
\* when it is a channel with a bit_mappings record.
RowsOf(m) ==
  IF IsBitChannel(m) THEN 1 + Len(BitEntries(m)) ELSE 1

\* Number of rows contributed by the mappings before the k-th one.
RECURSIVE RowsBefore(_, _)
RowsBefore(ms, k) ==
  IF k <= 1 THEN 0 ELSE RowsBefore(ms, k - 1) + RowsOf(ms[k - 1])

Ascending(rows) ==
  \A i, j \in 1..Len(rows) :
    i < j => BitPositionOrZero(rows[i]) <= BitPositionOrZero(rows[j])

(***************************************************************************)
(* C16: the variables list of a normalized PLC is the concatenation, in    *)
(* address_mappings order, of each mapping's result: the k-th mapping's    *)
(* parent row stands right after the rows of the mappings before it, a     *)
(* channel parent is immediately followed by all of its children in        *)
(* ascending bitPosition order, and no row of another mapping stands       *)
(* between them.                                                           *)
(***************************************************************************)
C16_FlatOrder ==
  NormalizedOk =>
    \A p \in 1..Len(NormalizedPLCs) :
      LET ms == MappingsOf(RawEntry(p))
          vs == NormalizedPLCs[p].variables
      IN /\ Len(vs) = RowsBefore(ms, Len(ms) + 1)
         /\ \A k \in 1..Len(ms) :
              LET at     == RowsBefore(ms, k) + 1
                  parent == vs[at]
                  kids   == SubSeq(vs, at + 1, at + RowsOf(ms[k]) - 1)
              IN /\ parent.id = ms[k].opcua_reg_add
                 /\ parent.plc_reg_add = ms[k].plc_reg_add
                 /\ parent.parentId = None
                 /\ IsBitChannel(ms[k]) =>
                      /\ parent.hasChildren = Some(TRUE)
                      /\ parent.children = Some(kids)
                      /\ Ascending(kids)
                      /\ \A c \in 1..Len(kids) :
                           kids[c].parentId = Some(parent.id)
                 /\ ~IsBitChannel(ms[k]) => parent.hasChildren # Some(TRUE)

\* A PLC whose first mapping is a channel of two bits declared in descending
\* order and whose second mapping is another row has been normalized.
C16_Witness ==
  /\ NormalizedOk
  /\ \E p \in 1..Len(NormalizedPLCs) :
       LET ms == MappingsOf(RawEntry(p))
           vs == NormalizedPLCs[p].variables
       IN /\ Len(ms) = 2
          /\ IsBitChannel(ms[1])
          /\ Len(BitEntries(ms[1])) = 2
          /\ BitEntries(ms[1])[1].value.bit_position
               > BitEntries(ms[1])[2].value.bit_position
          /\ Len(vs) = 4
          /\ vs[2].bitPosition = Some(BitEntries(ms[1])[2].value.bit_position)
          /\ vs[4].id = ms[2].opcua_reg_add


(***************************************************************************)
(* Vocabulary for the fields of a bit child.                               *)
(***************************************************************************)
\* The row is the child of the channel named P for the bit entry bitData.
IsChildFor(row, P, bitData) ==
  /\ row.id = P \o << ":" >> \o NumToString(bitData.bit_position)
  /\ row.type = "bool"
  /\ row.plc_reg_add = bitData.address
  /\ row.opcua_reg_add = P \o << "_", "b", "i", "t" >> \o NumToString(bitData.bit_position)
  /\ row.description = bitData.description
  /\ row.parentId = Some(P)
  /\ row.bitPosition = Some(bitData.bit_position)

(***************************************************************************)
(* C17: each child produced for a bit entry bitData of a channel with      *)
(* logical name P has id "P:{bit_position}", type "bool", plc_reg_add      *)
(* bitData.address, opcua_reg_add "P_bit{bit_position}", description       *)
(* bitData.description, parentId P and bitPosition bitData.bit_position;   *)
(* every bit entry has its child row, and parentId and bitPosition are set *)
(* on these child rows and on no other row.                                *)
(***************************************************************************)
C17_ChildFields ==
  IsSome(expanded) =>
    LET m    == Get(expanded).mapping
        vs   == Get(expanded).variables
        bits == IF IsBitChannel(m) THEN BitEntries(m) ELSE << >>
        kids == SubSeq(vs, 2, Len(vs))
    IN /\ Len(kids) = Len(bits)
       /\ vs[1].parentId = None
       /\ vs[1].bitPosition = None
       /\ \A c \in 1..Len(kids) :
            \E e \in 1..Len(bits) : IsChildFor(kids[c], m.opcua_reg_add, bits[e].value)
       /\ \A e \in 1..Len(bits) :
            Cardinality({ c \in 1..Len(kids) :
                            IsChildFor(kids[c], m.opcua_reg_add, bits[e].value) })
              = Cardinality({ j \in 1..Len(bits) : bits[j].value = bits[e].value })

\* A channel named "P" with the bit entries 12 and 0 has been expanded: the
\* row of bit 12 is "P:12" at address "D1.c".
C17_Witness ==
  /\ IsSome(expanded)
  /\ IsBitChannel(Get(expanded).mapping)
  /\ Get(expanded).mapping.opcua_reg_add = << "P" >>
  /\ Len(Get(expanded).variables) = 3
  /\ \E c \in 2..3 :
       /\ Get(expanded).variables[c].id = << "P", ":", "1", "2" >>
       /\ Get(expanded).variables[c].plc_reg_add = << "D", "1", ".", "c" >>
       /\ Get(expanded).variables[c].opcua_reg_add = << "P", "_", "b", "i", "t", "1", "2" >>
       /\ Get(expanded).variables[c].bitPosition = Some(12)


(***************************************************************************)
(* C18: a channel mapping without metadata.bit_mappings, and a mapping     *)
(* with any data_type other than "bool" and "channel" (even when it        *)
(* carries bit_mappings metadata), each normalize to exactly one variable  *)
(* that has no parentId, no children and hasChildren false; the call       *)
(* returns this list and raises no error.                                  *)
(***************************************************************************)
C18_ChildlessAndUnrecognized ==
  IsSome(expanded) =>
    LET m  == Get(expanded).mapping
        vs == Get(expanded).variables
    IN ( \/ (m.data_type = "channel" /\ ~HasBitMappings(m))
         \/ m.data_type \notin { "bool", "channel" } )
         => /\ Len(vs) = 1
            /\ vs[1].id = m.opcua_reg_add
            /\ vs[1].parentId = None
            /\ vs[1].children = None
            /\ vs[1].hasChildren = Some(FALSE)

\* A "word" mapping that carries a bit_mappings record of one entry has been
\* expanded to its single row.
C18_Witness ==
  /\ IsSome(expanded)
  /\ Get(expanded).mapping.data_type = "word"
  /\ HasBitMappings(Get(expanded).mapping)
  /\ Len(BitEntries(Get(expanded).mapping)) = 1
  /\ Len(Get(expanded).variables) = 1
  /\ Get(expanded).variables[1].hasChildren = Some(FALSE)


(***************************************************************************)
(* Vocabulary for the bit_mappings records that denormalizePLC rebuilds.   *)
(***************************************************************************)
\* The rows denormalizePLC emits a mapping for, in order: every row without
\* a parentId is among them.
EmittingRows(variables) ==
  { i \in 1..Len(variables) :
      variables[i].parentId = None \/ variables[i].parentId = Some(<< >>) }

\* The rows whose parentId is the id of the row variables[i].
ChildrenOf(variables, i) ==
  { j \in 1..Len(variables) : variables[j].parentId = Some(variables[i].id) }

\* The entry a record keyed by bit position holds for the child row.
BitEntryOf(child) ==
  [ key   |-> ZeroPaddedKey(Get(child.bitPosition)),
    value |-> [ address      |-> child.plc_reg_add,
                description  |-> child.description,
                bit_position |-> Get(child.bitPosition) ] ]

ChannelWithChildren(v) == v.type = "channel" /\ v.hasChildren = Some(TRUE)

\* The statement of C19 with one entry per child.
C19_BitKeysAsClaimed ==
  IsSome(denormalized) =>
    LET vs   == DenormalizedInput.variables
        rows == EmittingRows(vs)
    IN \A k \in 1..Cardinality(rows) :
         LET i == KthOf(rows, k)
             o == DenormalizedMappings[k]
         IN IF ChannelWithChildren(vs[i])
            THEN /\ IsSome(o.metadata)
                 /\ Len(Get(o.metadata).bit_mappings) = Cardinality(ChildrenOf(vs, i))
                 /\ \A j \in ChildrenOf(vs, i) :
                      BitEntryOf(vs[j]) \in EntrySet(Get(o.metadata).bit_mappings)
            ELSE o.metadata = None

(***************************************************************************)
(* C19: for each parent that is a channel with hasChildren true,           *)
(* denormalizePLC emits a bit_mappings record with one entry per distinct  *)
(* bitPosition among the children of that parent, keyed "bit_" followed by *)
(* the bitPosition zero-padded to 2 digits, whose address, description and *)
(* bit_position are the plc_reg_add, description and bitPosition of the    *)
(* last child with that bitPosition; a parent that is not such a channel   *)
(* gets no metadata.                                                       *)
(***************************************************************************)
C19_BitKeys ==
  IsSome(denormalized) =>
    LET vs   == DenormalizedInput.variables
        rows == EmittingRows(vs)
    IN \A k \in 1..Cardinality(rows) :
         LET i    == KthOf(rows, k)
             o    == DenormalizedMappings[k]
             kids == ChildrenOf(vs, i)
             last == { j \in kids :
                         \A j2 \in kids :
                           vs[j2].bitPosition = vs[j].bitPosition => j2 <= j }
         IN IF ChannelWithChildren(vs[i])
            THEN /\ IsSome(o.metadata)
                 /\ DistinctKeys(Get(o.metadata).bit_mappings)
                 /\ Len(Get(o.metadata).bit_mappings)
                      = Cardinality({ vs[j].bitPosition : j \in kids })
                 /\ EntrySet(Get(o.metadata).bit_mappings)
                      = { BitEntryOf(vs[j]) : j \in last }
            ELSE o.metadata = None

\* A PLC with a channel of three children, two of them at bit position 0,
\* and a channel without children has been denormalized: the first record
\* has the keys "bit_00" and "bit_12", the second mapping has no metadata.
C19_Witness ==
  /\ IsSome(denormalized)
  /\ Len(DenormalizedInput.variables) = 5
  /\ ChannelWithChildren(DenormalizedInput.variables[1])
  /\ Cardinality(ChildrenOf(DenormalizedInput.variables, 1)) = 3
  /\ DenormalizedInput.variables[5].type = "channel"
  /\ DenormalizedInput.variables[5].hasChildren = Some(FALSE)
  /\ Len(DenormalizedMappings) = 2
  /\ { e.key : e \in EntrySet(Get(DenormalizedMappings[1].metadata).bit_mappings) }
       = { << "b", "i", "t", "_", "0", "0" >>, << "b", "i", "t", "_", "1", "2" >> }
  /\ DenormalizedMappings[2].metadata = None


\* Two normalized PLCs agree on everything but id, last_checked, created_at.
SameButIdAndTimes(a, b) ==
  /\ a.variables = b.variables
  /\ a.registerCount = b.registerCount
  /\ a.boolCount = b.boolCount
  /\ a.channelCount = b.channelCount
  /\ a.plc_name = b.plc_name
  /\ a.plc_no = b.plc_no
  /\ a.plc_ip = b.plc_ip
  /\ a.opcua_url = b.opcua_url
  /\ a.status = b.status
  /\ a.is_connected = b.is_connected

SameOutcome ==
  (IsSome(previous) /\ IsSome(normalized)) =>
    /\ Get(previous).threw = Get(normalized).threw
    /\ Len(Get(previous).value) = Len(Get(normalized).value)
    /\ \A p \in 1..Len(Get(normalized).value) :
         SameButIdAndTimes(Get(previous).value[p], Get(normalized).value[p])

(***************************************************************************)
(* C20: a call of normalizePLCConfig leaves the document it was handed     *)
(* (its mappings and their bit_mappings records) as it found it, and two   *)
(* calls on the same document, the second on the document as the first     *)
(* left it, return PLCs with equal variables lists and equal               *)
(* registerCount, boolCount and channelCount; only id, last_checked and    *)
(* created_at may differ between the two.                                  *)
(***************************************************************************)
C20_PureAndDeterministic ==
  /\ [][doc' = doc]_vars
  /\ []SameOutcome

\* A document whose channel declares bit 12 before bit 0, so that the call
\* sorts the children it pushed, has been normalized twice, with different
\* generated ids and clock readings.
C20_Witness ==
  /\ IsSome(previous)
  /\ IsSome(normalized)
  /\ ~Get(normalized).threw
  /\ Len(Get(normalized).value) = 1
  /\ LET ms == MappingsOf(doc.plcs.items[1])
         vs == Get(normalized).value[1].variables
     IN /\ Len(ms) = 1
        /\ ms[1].data_type = "channel"
        /\ HasBitMappings(ms[1])
        /\ Len(BitEntries(ms[1])) = 2
        /\ BitEntries(ms[1])[1].value.bit_position = 12
        /\ BitEntries(ms[1])[2].value.bit_position = 0
        /\ Len(vs) = 3
        /\ vs[2].bitPosition = Some(0)
        /\ vs[3].bitPosition = Some(12)
        /\ Get(previous).value[1].variables = vs
  /\ Get(normalized).value[1].id # Get(previous).value[1].id
  /\ Get(normalized).value[1].last_checked # Get(previous).value[1].last_checked
  /\ Get(normalized).value[1].created_at # Get(previous).value[1].created_at


(***************************************************************************)
(* transformPLCWithBitExpansion                                            *)
(*                                                                         *)
(* A stored PLC is [id, address_mappings]; address_mappings is optional    *)
(* and its mappings are [node_name, node_id, description, data_type,       *)
(* metadata] with description, data_type and metadata optional; metadata   *)
(* holds an optional bit_mappings record, kept as the sequence of its      *)
(* [key, value] entries. A row carries every field the function may set;   *)
(* the fields it leaves out are None.                                      *)
(***************************************************************************)
\* String.prototype.endsWith
EndsWith(s, suffix) ==
  /\ Len(s) >= Len(suffix)
  /\ SubSeq(s, Len(s) - Len(suffix) + 1, Len(s)) = suffix

\* String.prototype.replace with a string pattern: the first occurrence only
ReplaceFirst(s, pattern, replacement) ==
  LET at(i) == SubSeq(s, i, i + Len(pattern) - 1) = pattern
      found == { i \in 1..(Len(s) - Len(pattern) + 1) : at(i) }
  IN IF found = { } THEN s
     ELSE LET i == CHOOSE i \in found : \A j \in found : i <= j
          IN SubSeq(s, 1, i - 1) \o replacement \o SubSeq(s, i + Len(pattern), Len(s))

BCSuffix == << "_", "B", "C" >>

\* (mapping as any).metadata?.bit_mappings
HasDisplayBitMappings(mapping) ==
  IsSome(mapping.metadata) /\ IsSome(Get(mapping.metadata).bit_mappings)

DisplayBitEntries(mapping) == Get(Get(mapping.metadata).bit_mappings)

\* mapping.node_id || `${plc.id}_var_${index}` (index counts from 0)
displayId(plc, mapping, index) ==
  IF mapping.node_id # << >> THEN mapping.node_id
  ELSE plc.id \o << "_", "v", "a", "r", "_" >> \o NumToString(index)

\* mapping.description || fallback
descriptionOr(mapping, fallback) ==
  IF IsSome(mapping.description) /\ Get(mapping.description) # << >>
  THEN Get(mapping.description) ELSE fallback

displayBase(plc, mapping, index) ==
  [ id            |-> displayId(plc, mapping, index),
    type          |-> IF mapping.data_type = Some("channel") THEN "channel" ELSE "bool",
    plc_reg_add   |-> mapping.node_name,
    opcua_reg_add |-> mapping.node_name,
    description   |-> descriptionOr(mapping, << "N", "o", " ", "d", "e", "s", "c", "r",
                                                "i", "p", "t", "i", "o", "n" >>),
    data_type     |-> IF IsSome(mapping.data_type) /\ Get(mapping.data_type) # ""
                      THEN Get(mapping.data_type) ELSE "unknown",
    metadata      |-> mapping.metadata,
    parentId      |-> None,
    bitPosition   |-> None,
    hasChildren   |-> None,
    isBitRow      |-> None ]

\* `Bit ${bitNumber} of ${mapping.description || mapping.node_name}`
bitDescription(mapping, bitNumber) ==
  << "B", "i", "t", " " >> \o bitNumber \o << " ", "o", "f", " " >>
    \o descriptionOr(mapping, mapping.node_name)

\* The row of one bit: position is the bit's number, described is the
\* description the bit brings along ("" when it brings none).
displayBitRow(plc, mapping, index, position, described) ==
  LET bitNumber == PadStart(NumToString(position), 2, "0")
  IN [ id            |-> displayId(plc, mapping, index)
                           \o << "_", "b", "i", "t", "_" >> \o bitNumber,
       type          |-> "bool",
       plc_reg_add   |-> ReplaceFirst(mapping.node_name, BCSuffix, << >>)
                           \o << "." >> \o bitNumber,
       opcua_reg_add |-> ReplaceFirst(mapping.node_name, BCSuffix,
                                      << "_", "B", "C", "_" >> \o bitNumber),
       description   |-> IF described # << >> THEN described
                         ELSE bitDescription(mapping, bitNumber),
       data_type     |-> "bool",
       metadata      |-> None,
       parentId      |-> Some(displayId(plc, mapping, index)),
       bitPosition   |-> Some(position),
       hasChildren   |-> None,
       isBitRow      |-> Some(TRUE) ]

defaultBitCount == 8

\* The rows pushed for one address mapping (the body of the forEach).
\* Variant of displayRowsOf: the default bit rows are numbered from 1.
displayRowsOfFromOne(plc, mapping, index) ==
  LET base   == displayBase(plc, mapping, index)
      parent == [ base EXCEPT !.type = "channel", !.hasChildren = Some(TRUE) ]
  IN IF EndsWith(mapping.node_name, BCSuffix) /\ HasDisplayBitMappings(mapping)
     THEN << parent >>
          \o [ i \in 1..Len(DisplayBitEntries(mapping)) |->
                 displayBitRow(plc, mapping, index,
                               DisplayBitEntries(mapping)[i].value.bit_position,
                               DisplayBitEntries(mapping)[i].value.description) ]
     ELSE IF EndsWith(mapping.node_name, BCSuffix)
     THEN << parent >>
          \o [ i \in 1..defaultBitCount |->
                 displayBitRow(plc, mapping, index, i, << >>) ]
     ELSE << base >>

displayRowsOf(plc, mapping, index) ==
  LET base   == displayBase(plc, mapping, index)
      parent == [ base EXCEPT !.type = "channel", !.hasChildren = Some(TRUE) ]
  IN IF EndsWith(mapping.node_name, BCSuffix) /\ HasDisplayBitMappings(mapping)
     THEN << parent >>
          \o [ i \in 1..Len(DisplayBitEntries(mapping)) |->
                 displayBitRow(plc, mapping, index,
                               DisplayBitEntries(mapping)[i].value.bit_position,
                               DisplayBitEntries(mapping)[i].value.description) ]
     ELSE IF EndsWith(mapping.node_name, BCSuffix)
     THEN << parent >>
          \o [ i \in 1..defaultBitCount |->
                 displayBitRow(plc, mapping, index, i - 1, << >>) ]
     ELSE << base >>

RECURSIVE displayRowsFrom(_, _, _)
displayRowsFrom(plc, mappings, i) ==
  IF i > Len(mappings) THEN << >>
  ELSE displayRowsOf(plc, mappings[i], i - 1) \o displayRowsFrom(plc, mappings, i + 1)

\* The two rows shown for a PLC that yields no row of its own.
defaultVariables(plc) ==
  << [ id            |-> plc.id \o << "_", "d", "e", "f", "a", "u", "l", "t", "_", "1" >>,
       type          |-> "bool",
       plc_reg_add   |-> << "M", "1", "0" >>,
       opcua_reg_add |-> << "n", "s", "=", "2", ";", "i", "=", "1", "0", "0", "1" >>,
       description   |-> << "D", "e", "f", "a", "u", "l", "t", " ", "B", "o", "o", "l",
                            "e", "a", "n", " ", "V", "a", "r", "i", "a", "b", "l", "e" >>,
       data_type     |-> "bool",
       metadata      |-> None,
       parentId      |-> None,
       bitPosition   |-> None,
       hasChildren   |-> None,
       isBitRow      |-> None ],
     [ id            |-> plc.id \o << "_", "d", "e", "f", "a", "u", "l", "t", "_", "2" >>,
       type          |-> "channel",
       plc_reg_add   |-> << "D", "1", "0", "0" >>,
       opcua_reg_add |-> << "n", "s", "=", "2", ";", "i", "=", "1", "0", "0", "2" >>,
       description   |-> << "D", "e", "f", "a", "u", "l", "t", " ", "C", "h", "a", "n",
                            "n", "e", "l", " ", "V", "a", "r", "i", "a", "b", "l", "e" >>,
       data_type     |-> "channel",
       metadata      |-> None,
       parentId      |-> None,
       bitPosition   |-> None,
       hasChildren   |-> Some(FALSE),
       isBitRow      |-> None ] >>

transformPLCWithBitExpansion(plc) ==
  LET pushed    == IF IsSome(plc.address_mappings)
                   THEN displayRowsFrom(plc, Get(plc.address_mappings), 1)
                   ELSE << >>
      variables == IF Len(pushed) = 0 THEN defaultVariables(plc) ELSE pushed
  IN [ id            |-> plc.id,
       variables     |-> variables,
       registerCount |-> Len(variables),
       boolCount     |-> Cardinality({ i \in 1..Len(variables) : variables[i].type = "bool" }),
       channelCount  |-> Cardinality({ i \in 1..Len(variables) :
                                         variables[i].type = "channel" }) ]

(***************************************************************************)
(* Display specification: a stored PLC is drawn and transformed.           *)
(***************************************************************************)
MaxDisplayMappings == 2

DisplayBits ==
  { << >>,
    << [ key   |-> << "b", "i", "t", "_", "0", "3" >>,
         value |-> [ description |-> << >>, bit_position |-> 3 ] ],
       [ key   |-> << "b", "i", "t", "_", "0", "0" >>,
         value |-> [ description |-> << "l", "o" >>, bit_position |-> 0 ] ] >> }

DisplayMetadata ==
  { None, Some([ bit_mappings |-> None ]) }
    \cup { Some([ bit_mappings |-> Some(b) ]) : b \in DisplayBits }

DisplayMappings ==
  { [ node_name   |-> n,
      node_id     |-> i,
      description |-> d,
      data_type   |-> t,
      metadata    |-> m ] :
      n \in { << "A", "_", "B", "C" >>, << "A" >>, << "_", "B", "C", "x" >> },
      i \in { << >>, << "n", "1" >> },
      d \in { None },
      t \in { None, Some("channel") },
      m \in DisplayMetadata }

StoredPLCs ==
  { [ id |-> << "p", "1" >>, address_mappings |-> a ] :
      a \in { None } \cup { Some(ms) : ms \in SeqsUpTo(DisplayMappings, MaxDisplayMappings) } }

InitBits ==
  /\ bitInput \in { Some(plc) : plc \in StoredPLCs }
  /\ bitRows = None
  /\ IdleNorm
  /\ IdleGroup
  /\ IdleFilter
  /\ IdleServer
  /\ IdleDesc
  /\ IdleSocket

\* One call of transformPLCWithBitExpansion on the stored PLC.
TransformForDisplay ==
  /\ IsSome(bitInput)
  /\ bitRows' = Some(transformPLCWithBitExpansion(Get(bitInput)))
  /\ UNCHANGED << bitInput, normVars, groupVars, filterVars, serverVars, descVars,
                  socketVars >>

NextBits == TransformForDisplay

SpecBits == InitBits /\ [][NextBits]_vars


(***************************************************************************)
(* Vocabulary for the rows of a displayed PLC.                             *)
(***************************************************************************)
DisplayedMappings == Get(Get(bitInput).address_mappings)

DisplayedRows == Get(bitRows).variables

\* The rows that are not bit rows: each mapping yields one, its first row.
HeadRows == { i \in 1..Len(DisplayedRows) : DisplayedRows[i].isBitRow # Some(TRUE) }

\* The rows between the k-th head row and the next one.
BitRowsAfter(k) ==
  SubSeq(DisplayedRows, KthOf(HeadRows, k) + 1,
         IF k = Cardinality(HeadRows) THEN Len(DisplayedRows)
         ELSE KthOf(HeadRows, k + 1) - 1)

(***************************************************************************)
(* C21: in transformPLCWithBitExpansion, a mapping whose node_name ends in *)
(* "_BC" and that has no bit_mappings metadata yields the parent (type     *)
(* "channel", hasChildren true) followed by exactly 8 child rows with      *)
(* bitPosition 0,1,...,7 in ascending order, each with parentId equal to   *)
(* the parent's id and isBitRow true; a mapping whose name does not end in *)
(* "_BC" yields exactly one row.                                           *)
(***************************************************************************)
C21_DefaultEightBits ==
  (IsSome(bitRows) /\ IsSome(Get(bitInput).address_mappings)
     /\ Len(DisplayedMappings) > 0) =>
    /\ Cardinality(HeadRows) = Len(DisplayedMappings)
    /\ \A k \in 1..Len(DisplayedMappings) :
         LET m      == DisplayedMappings[k]
             parent == DisplayedRows[KthOf(HeadRows, k)]
             kids   == BitRowsAfter(k)
         IN /\ (EndsWith(m.node_name, << "_", "B", "C" >>) /\ ~HasDisplayBitMappings(m)) =>
                 ( /\ parent.type = "channel"
                   /\ parent.hasChildren = Some(TRUE)
                   /\ Len(kids) = 8
                   /\ \A c \in 1..Len(kids) :
                        /\ kids[c].bitPosition = Some(c - 1)
                        /\ kids[c].parentId = Some(parent.id)
                        /\ kids[c].isBitRow = Some(TRUE) )
            /\ ~EndsWith(m.node_name, << "_", "B", "C" >>) =>
                 ( /\ Len(kids) = 0
                   /\ parent.opcua_reg_add = m.node_name )

\* A PLC whose first mapping is "A_BC" without metadata and without a
\* node_id, and whose second mapping is "A", has been transformed into ten
\* rows.
C21_Witness ==
  /\ IsSome(bitRows)
  /\ IsSome(Get(bitInput).address_mappings)
  /\ Len(DisplayedMappings) = 2
  /\ DisplayedMappings[1].node_name = << "A", "_", "B", "C" >>
  /\ DisplayedMappings[1].metadata = None
  /\ DisplayedMappings[1].node_id = << >>
  /\ DisplayedMappings[2].node_name = << "A" >>
  /\ Len(DisplayedRows) = 10
  /\ DisplayedRows[9].parentId = Some(<< "p", "1", "_", "v", "a", "r", "_", "0" >>)
  /\ DisplayedRows[9].bitPosition = Some(7)
  /\ DisplayedRows[10].isBitRow = None


(***************************************************************************)
(* Server storage (SqliteStorage)                                          *)
(*                                                                         *)
(* The plcs table is the sequence of its rows [id, plc_name, plc_no,       *)
(* plc_ip, opcua_url, status, last_checked, is_connected, created_at] and  *)
(* the opcua_nodes table the sequence of its rows [id, plc_no, nodeName,   *)
(* description, value, timestamp, datatype, regAdd, userDescription], both *)
(* in insertion order. storage.ts imports the tables from ./db, which is   *)
(* not among the sources: createPLC expects a unique index on plc_ip (its  *)
(* comment and its SQLITE_CONSTRAINT_UNIQUE catch), and whether the plcs   *)
(* table has one is not known. plcIpUnique says whether it has; both       *)
(* tables are served. An operator below stands for one statement run on    *)
(* the database; a method that awaits several statements is the step       *)
(* operator of its handler further down.                                   *)
(***************************************************************************)
\* new Date().toISOString(), as the clock reads while the requests are served.
NowISO ==
  << "1", "9", "7", "0", "-", "0", "1", "-", "0", "1", "T",
     "0", "0", ":", "0", "0", ":", "0", "1", ".", "0", "0", "0", "Z" >>

getPLCById(plcs, id) ==
  LET Match(row) == row.id = id
      results    == SelectSeq(plcs, Match)
  IN IF Len(results) = 0 THEN None ELSE Some(results[1])

getPLCByIpAndUrl(plcs, plc_ip, opcua_url) ==
  LET Match(row) == row.plc_ip = plc_ip /\ row.opcua_url = opcua_url
      results    == SelectSeq(plcs, Match)
  IN IF Len(results) = 0 THEN None ELSE Some(results[1])

\* db.insert(plcsTable).values(plcData): on a table with the unique index
\* the statement fails, with the code the catch of createPLC looks for, when
\* a row has the plc_ip; the table is then as it was.
insertPLCRow(plcs, plcData, unique) ==
  IF unique /\ \E i \in 1..Len(plcs) : plcs[i].plc_ip = plcData.plc_ip
  THEN [ error |-> Some("SQLITE_CONSTRAINT_UNIQUE"), plcs |-> plcs ]
  ELSE [ error |-> None, plcs |-> Append(plcs, plcData) ]

\* createPLC with the id the method has drawn. A unique violation of the
\* insert is thrown as "PLC with IP ... already exists" (alreadyExists),
\* any other error as it came.
createPLC(plcs, id, config, unique) ==
  LET plcData == [ id           |-> id,
                   plc_name     |-> config.plc_name,
                   plc_no       |-> config.plc_no,
                   plc_ip       |-> config.plc_ip,
                   opcua_url    |-> config.opcua_url,
                   status       |-> "maintenance",
                   last_checked |-> NowISO,
                   is_connected |-> FALSE,
                   created_at   |-> NowISO ]
      result  == insertPLCRow(plcs, plcData, unique)
  IN [ threw         |-> IsSome(result.error),
       alreadyExists |-> result.error = Some("SQLITE_CONSTRAINT_UNIQUE"),
       plcs          |-> result.plcs ]

\* updates.last_checked.toISOString() throws unless last_checked is a Date.
updateDataThrows(updates) ==
  IsSome(updates.last_checked) /\ ~Get(updates.last_checked).isDate

\* Variant of updatedRow: the status is left as it was.
updatedRowConnectionOnly(row, updates) ==
  [ id           |-> row.id,
    plc_name     |-> IF IsSome(updates.plc_name) THEN Get(updates.plc_name)
                     ELSE row.plc_name,
    plc_no       |-> IF IsSome(updates.plc_no) THEN Get(updates.plc_no) ELSE row.plc_no,
    plc_ip       |-> IF IsSome(updates.plc_ip) THEN Get(updates.plc_ip) ELSE row.plc_ip,
    opcua_url    |-> IF IsSome(updates.opcua_url) THEN Get(updates.opcua_url)
                     ELSE row.opcua_url,
    status       |-> row.status,
    last_checked |-> IF IsSome(updates.last_checked) THEN Get(updates.last_checked).iso
                     ELSE row.last_checked,
    is_connected |-> IF IsSome(updates.is_connected) THEN Get(updates.is_connected)
                     ELSE row.is_connected,
    created_at   |-> row.created_at ]

\* updateData of updatePLC applied to a row: each field of updates that is
\* not undefined replaces the field of the row.
updatedRow(row, updates) ==
  [ id           |-> row.id,
    plc_name     |-> IF IsSome(updates.plc_name) THEN Get(updates.plc_name)
                     ELSE row.plc_name,
    plc_no       |-> IF IsSome(updates.plc_no) THEN Get(updates.plc_no) ELSE row.plc_no,
    plc_ip       |-> IF IsSome(updates.plc_ip) THEN Get(updates.plc_ip) ELSE row.plc_ip,
    opcua_url    |-> IF IsSome(updates.opcua_url) THEN Get(updates.opcua_url)
                     ELSE row.opcua_url,
    status       |-> IF IsSome(updates.status) THEN Get(updates.status) ELSE row.status,
    last_checked |-> IF IsSome(updates.last_checked) THEN Get(updates.last_checked).iso
                     ELSE row.last_checked,
    is_connected |-> IF IsSome(updates.is_connected) THEN Get(updates.is_connected)
                     ELSE row.is_connected,
    created_at   |-> row.created_at ]

\* The update statement of updatePLC fails on a table with the unique index
\* when it would give the row a plc_ip that another row has.
updateViolatesUnique(plcs, id, updates, unique) ==
  /\ unique
  /\ IsSome(updates.plc_ip)
  /\ \E i, j \in 1..Len(plcs) :
       plcs[i].id = id /\ plcs[j].id # id /\ plcs[j].plc_ip = Get(updates.plc_ip)

\* The update statement of updatePLC: every row with the id is written, and
\* none when the row has been deleted since the method selected it.
updatePLCRows(plcs, id, updates) ==
  [ i \in 1..Len(plcs) |-> IF plcs[i].id = id THEN updatedRow(plcs[i], updates)
                           ELSE plcs[i] ]

\* deleted: result.changes > 0
deletePLC(plcs, id) ==
  LET Other(row) == row.id # id
  IN [ deleted |-> Len(SelectSeq(plcs, Other)) < Len(plcs),
       plcs    |-> SelectSeq(plcs, Other) ]

\* The select of deletePLCByPlcNo: the id of the first row with the number,
\* if any. Its delete is the statement of deletePLC on that id.
deletePLCByPlcNoSelect(plcs, plcNo) ==
  LET Match(row) == row.plc_no = plcNo
      results    == SelectSeq(plcs, Match)
  IN IF Len(results) = 0 THEN None ELSE Some(results[1].id)

\* A row as the methods return it: value || undefined, and the same for
\* userDescription.
returnedNode(row) ==
  [ row EXCEPT !.value           = IF @ = << >> THEN None ELSE Some(@),
               !.userDescription = IF @ = << >> THEN None ELSE Some(@) ]

getOpcuaNodeById(nodes, id) ==
  LET Match(row) == row.id = id
      results    == SelectSeq(nodes, Match)
  IN IF Len(results) = 0 THEN None ELSE Some(returnedNode(results[1]))

getOpcuaNodesByPlcNo(nodes, plcNo) ==
  LET Match(row) == row.plc_no = plcNo
      results    == SelectSeq(nodes, Match)
  IN [ i \in 1..Len(results) |-> returnedNode(results[i]) ]

\* x || fallback, for an optional string x
OrElse(x, fallback) == IF IsSome(x) /\ Get(x) # << >> THEN Get(x) ELSE fallback

\* The insert fails when plc_no is missing (the column is NOT NULL). node
\* is the row the method returns.
createOpcuaNode(nodes, nextId, node) ==
  LET nodeData == [ id              |-> nextId,
                    plc_no          |-> Get(node.plc_no),
                    nodeName        |-> node.nodeName,
                    description     |-> node.description,
                    value           |-> OrElse(node.value, << >>),
                    timestamp       |-> OrElse(node.timestamp, NowISO),
                    datatype        |-> node.datatype,
                    regAdd          |-> node.regAdd,
                    userDescription |-> OrElse(node.userDescription, << >>) ]
  IN IF node.plc_no = None
     THEN [ threw |-> TRUE, nodes |-> nodes, nextId |-> nextId, node |-> None ]
     ELSE [ threw  |-> FALSE,
            nodes  |-> Append(nodes, nodeData),
            nextId |-> nextId + 1,
            node   |-> Some(returnedNode(nodeData)) ]

\* updateData of updateOpcuaNode applied to a row: each field of updates
\* that is not undefined replaces the field of the row.
updatedNode(row, updates) ==
  [ id              |-> row.id,
    plc_no          |-> IF IsSome(updates.plc_no) THEN Get(updates.plc_no) ELSE row.plc_no,
    nodeName        |-> IF IsSome(updates.nodeName) THEN Get(updates.nodeName)
                        ELSE row.nodeName,
    description     |-> IF IsSome(updates.description) THEN Get(updates.description)
                        ELSE row.description,
    value           |-> IF IsSome(updates.value) THEN Get(updates.value) ELSE row.value,
    timestamp       |-> IF IsSome(updates.timestamp) THEN Get(updates.timestamp)
                        ELSE row.timestamp,
    datatype        |-> IF IsSome(updates.datatype) THEN Get(updates.datatype)
                        ELSE row.datatype,
    regAdd          |-> IF IsSome(updates.regAdd) THEN Get(updates.regAdd) ELSE row.regAdd,
    userDescription |-> IF IsSome(updates.userDescription)
                        THEN Get(updates.userDescription) ELSE row.userDescription ]

\* The update statement of updateOpcuaNode: every row with the id is
\* written, and none when the row has been deleted since the select.
updateOpcuaNodeRows(nodes, id, updates) ==
  [ i \in 1..Len(nodes) |-> IF nodes[i].id = id THEN updatedNode(nodes[i], updates)
                            ELSE nodes[i] ]

\* deleted: result.changes > 0
deleteOpcuaNode(nodes, id) ==
  LET Other(row) == row.id # id
  IN [ deleted |-> Len(SelectSeq(nodes, Other)) < Len(nodes),
       nodes   |-> SelectSeq(nodes, Other) ]

(***************************************************************************)
(* Server routes                                                           *)
(*                                                                         *)
(* A handler awaits each statement it runs on the database, and the        *)
(* statements of other requests may run between two of its own. A request  *)
(* in flight is the record of its handler's local state: kind and arg (the *)
(* route and its input), pc and i (the statement it runs next), rows (the  *)
(* createdNodes of an upload, the nodes a deletion read, the row an update *)
(* returns), count (totalCreated, deletedCount) and found (what the first  *)
(* select of the handler returned).                                        *)
(* guardedAtStart and releasedAtStart record what held when it arrived.    *)
(* One step of a handler runs one statement on the tables [plcs, nodes,    *)
(* nextPlcId, nextNodeId] and gives the request after it, the status       *)
(* answered if the handler answers, and the tables after it. An uploaded   *)
(* document has the shape of the documents of normalizePLCConfig.          *)
(***************************************************************************)
Goes(req, pc, i, tables) ==
  [ req |-> [ req EXCEPT !.pc = pc, !.i = i ], status |-> None, tables |-> tables ]

Answers(req, status, tables) ==
  [ req |-> req, status |-> Some(status), tables |-> tables ]

\* plc.plc_no || 1
uploadPlcNoOrDefault(plc) ==
  IF IsSome(plc.plc_no) /\ Get(plc.plc_no) # 0 THEN Get(plc.plc_no) ELSE 1

bitNodeData(plc, mapping, bitData) ==
  [ plc_no          |-> plc.plc_no,
    nodeName        |-> mapping.opcua_reg_add \o << "_" >>
                          \o PadStart(NumToString(bitData.bit_position), 2, "0"),
    description     |-> bitData.description,
    value           |-> Some(<< >>),
    timestamp       |-> Some(NowISO),
    datatype        |-> "BOOL",
    regAdd          |-> bitData.address,
    userDescription |-> Some(<< >>) ]

singleNodeData(plc, mapping) ==
  [ plc_no          |-> plc.plc_no,
    nodeName        |-> mapping.opcua_reg_add,
    description     |-> mapping.description,
    value           |-> Some(<< >>),
    timestamp       |-> Some(NowISO),
    datatype        |-> mapping.data_type,
    regAdd          |-> mapping.plc_reg_add,
    userDescription |-> Some(<< >>) ]

\* Variant of nodeDataOfMapping: the channel itself gets a node too.
nodeDataOfMappingWithChannel(plc, mapping) ==
  IF HasBitMappings(mapping)
  THEN << singleNodeData(plc, mapping) >>
       \o [ i \in 1..Len(BitEntries(mapping)) |->
              bitNodeData(plc, mapping, BitEntries(mapping)[i].value) ]
  ELSE << singleNodeData(plc, mapping) >>

\* The nodes the handler creates for one address mapping, in order.
nodeDataOfMapping(plc, mapping) ==
  IF HasBitMappings(mapping)
  THEN [ i \in 1..Len(BitEntries(mapping)) |->
           bitNodeData(plc, mapping, BitEntries(mapping)[i].value) ]
  ELSE << singleNodeData(plc, mapping) >>

RECURSIVE nodeDataOfMappingsFrom(_, _, _)
nodeDataOfMappingsFrom(plc, mappings, i) ==
  IF i > Len(mappings) THEN << >>
  ELSE nodeDataOfMapping(plc, mappings[i]) \o nodeDataOfMappingsFrom(plc, mappings, i + 1)

\* A PLC entry without an address_mappings array is skipped.
nodeDataOfPlc(plc) ==
  IF IsSome(plc.address_mappings)
  THEN nodeDataOfMappingsFrom(plc, Get(plc.address_mappings), 1)
  ELSE << >>

\* The nodes of the creation loop, in the order of their creation.
RECURSIVE nodeDataFrom(_, _)
nodeDataFrom(items, i) ==
  IF i > Len(items) THEN << >>
  ELSE nodeDataOfPlc(items[i]) \o nodeDataFrom(items, i + 1)

\* Variant of nextPosition: each PLC entry is checked right before its own
\* nodes are created.
nextPositionInterleaved(items, pc, i) ==
  LET upTo(p)     == Len(nodeDataFrom(SubSeq(items, 1, p), 1))
      afterPLC(p) == IF p < Len(items) THEN [ pc |-> "checkPLC", i |-> p + 1 ]
                     ELSE [ pc |-> "done", i |-> 0 ]
      plcOf(k)    == CHOOSE p \in 1..Len(items) : upTo(p - 1) < k /\ k <= upTo(p)
  IN IF pc = "checkNodes"
     THEN IF upTo(i) > upTo(i - 1) THEN [ pc |-> "create", i |-> upTo(i - 1) + 1 ]
          ELSE afterPLC(i)
     ELSE IF i < upTo(plcOf(i)) THEN [ pc |-> "create", i |-> i + 1 ]
          ELSE afterPLC(plcOf(i))

\* The statement of the upload handler that follows the check of the i-th
\* PLC entry when it found no duplicate (pc = "checkNodes") or the creation
\* of the i-th node: the duplicate check loop ends before the creation loop
\* starts, and after the creation loop the handler answers ("done").
nextPosition(items, pc, i) ==
  LET total == Len(nodeDataFrom(items, 1))
  IN IF pc = "checkNodes"
     THEN IF i < Len(items) THEN [ pc |-> "checkPLC", i |-> i + 1 ]
          ELSE IF total > 0 THEN [ pc |-> "create", i |-> 1 ]
          ELSE [ pc |-> "done", i |-> 0 ]
     ELSE IF i < total THEN [ pc |-> "create", i |-> i + 1 ]
          ELSE [ pc |-> "done", i |-> 0 ]

\* POST /api/upload/json with the parsed document req.arg. The statements:
\* getPLCByIpAndUrl for a PLC entry ("checkPLC"), getOpcuaNodesByPlcNo after
\* a PLC was found ("countNodes", then 409) or not found ("checkNodes"), and
\* createOpcuaNode for a node ("create"). An insert that throws is answered
\* 500 and the nodes created before it stay.
uploadStep(req, tables) ==
  LET json     == req.arg
      items    == json.plcs.items
      at       == IF req.pc = "start" THEN [ req EXCEPT !.pc = "checkPLC", !.i = 1 ]
                  ELSE req
      plc      == items[at.i]
      created  == createOpcuaNode(tables.nodes, tables.nextNodeId,
                                  nodeDataFrom(items, 1)[at.i])
      pushed   == [ at EXCEPT !.rows  = Append(@, Get(created.node)),
                              !.count = @ + 1 ]
      after    == [ tables EXCEPT !.nodes = created.nodes, !.nextNodeId = created.nextId ]
      next     == nextPosition(items, at.pc, at.i)
  IN IF req.pc = "start" /\ PlcsInvalid(json) THEN Answers(req, 400, tables)
     ELSE IF req.pc = "start" /\ Len(items) = 0 THEN Answers(req, 200, tables)
     ELSE IF at.pc = "checkPLC"
     THEN IF IsSome(getPLCByIpAndUrl(tables.plcs, plc.plc_ip, plc.opcua_url))
          THEN Goes(at, "countNodes", at.i, tables)
          ELSE Goes(at, "checkNodes", at.i, tables)
     ELSE IF at.pc = "countNodes" THEN Answers(at, 409, tables)
     ELSE IF at.pc = "checkNodes"
     THEN IF Len(getOpcuaNodesByPlcNo(tables.nodes, uploadPlcNoOrDefault(plc))) > 0
          THEN Answers(at, 409, tables)
          ELSE IF next.pc = "done" THEN Answers(at, 200, tables)
          ELSE Goes(at, next.pc, next.i, tables)
     ELSE IF created.threw THEN Answers(at, 500, tables)
     ELSE IF next.pc = "done" THEN Answers(pushed, 200, after)
     ELSE Goes(pushed, next.pc, next.i, after)

\* DELETE /api/plcs/by-number/:plc_no with the parsed number req.arg. The
\* statements: getOpcuaNodesByPlcNo ("start"), deleteOpcuaNode for a node it
\* returned ("deleteNode"), and the select ("findPLC") and the delete
\* ("deletePLC") of deletePLCByPlcNo. Without nodes the answer is 404 unless
\* the PLC row was deleted.
deleteByNumberStep(req, tables) ==
  LET plcNo         == req.arg
      existingNodes == getOpcuaNodesByPlcNo(tables.nodes, plcNo)
      removed       == deleteOpcuaNode(tables.nodes, req.rows[req.i].id)
      counted       == [ req EXCEPT !.count = IF removed.deleted THEN @ + 1 ELSE @ ]
      selected      == deletePLCByPlcNoSelect(tables.plcs, plcNo)
      plcDeleted    == deletePLC(tables.plcs, Get(req.found))
  IN IF req.pc = "start"
     THEN IF Len(existingNodes) = 0
          THEN Goes([ req EXCEPT !.rows = existingNodes ], "findPLC", 0, tables)
          ELSE Goes([ req EXCEPT !.rows = existingNodes ], "deleteNode", 1, tables)
     ELSE IF req.pc = "deleteNode"
     THEN IF req.i < Len(req.rows)
          THEN Goes(counted, "deleteNode", req.i + 1,
                    [ tables EXCEPT !.nodes = removed.nodes ])
          ELSE Goes(counted, "findPLC", 0, [ tables EXCEPT !.nodes = removed.nodes ])
     ELSE IF req.pc = "findPLC"
     THEN IF selected = None
          THEN Answers(req, IF Len(req.rows) = 0 THEN 404 ELSE 200, tables)
          ELSE Goes([ req EXCEPT !.found = selected ], "deletePLC", 0, tables)
     ELSE Answers(req, IF Len(req.rows) = 0 /\ ~plcDeleted.deleted THEN 404 ELSE 200,
                  [ tables EXCEPT !.plcs = plcDeleted.plcs ])

\* DELETE /api/plcs/:id with the id req.arg. The statements: getPLCById
\* ("start"), getOpcuaNodesByPlcNo for a PLC found with a plc_no that is not
\* 0 ("readNodes"), deleteOpcuaNode for a node it returned ("deleteNode"),
\* and deletePLC ("deletePLC").
deletePLCStep(req, tables) ==
  LET plc     == getPLCById(tables.plcs, req.arg)
      nodes   == getOpcuaNodesByPlcNo(tables.nodes, Get(req.found))
      removed == deleteOpcuaNode(tables.nodes, req.rows[req.i].id)
      deleted == deletePLC(tables.plcs, req.arg)
  IN IF req.pc = "start"
     THEN IF IsSome(plc) /\ Get(plc).plc_no # 0
          THEN Goes([ req EXCEPT !.found = Some(Get(plc).plc_no) ], "readNodes", 0, tables)
          ELSE Goes(req, "deletePLC", 0, tables)
     ELSE IF req.pc = "readNodes"
     THEN IF Len(nodes) = 0
          THEN Goes([ req EXCEPT !.rows = nodes ], "deletePLC", 0, tables)
          ELSE Goes([ req EXCEPT !.rows = nodes ], "deleteNode", 1, tables)
     ELSE IF req.pc = "deleteNode"
     THEN IF req.i < Len(req.rows)
          THEN Goes(req, "deleteNode", req.i + 1, [ tables EXCEPT !.nodes = removed.nodes ])
          ELSE Goes(req, "deletePLC", 0, [ tables EXCEPT !.nodes = removed.nodes ])
     ELSE Answers(req, IF deleted.deleted THEN 204 ELSE 404,
                  [ tables EXCEPT !.plcs = deleted.plcs ])

\* POST /api/plcs with the parsed body req.arg. The statements:
\* getPLCByIpAndUrl ("start"; a duplicate is answered 409) and the insert of
\* createPLC ("insert"), which draws the id of the row. An error of
\* createPLC is answered 409 when its message says "already exists" and 500
\* otherwise.
createPLCStep(req, tables) ==
  LET config  == req.arg
      created == createPLC(tables.plcs, tables.nextPlcId, config, tables.plcIpUnique)
  IN IF req.pc = "start"
     THEN IF IsSome(getPLCByIpAndUrl(tables.plcs, config.plc_ip, config.opcua_url))
          THEN Answers(req, 409, tables)
          ELSE Goes(req, "insert", 0, tables)
     ELSE IF created.threw
     THEN Answers(req, IF created.alreadyExists THEN 409 ELSE 500, tables)
     ELSE Answers(req, 201,
                  [ tables EXCEPT !.plcs = created.plcs, !.nextPlcId = @ + 1 ])

\* An update of a PLC is undefined in every field it does not name.
NoUpdates ==
  [ plc_name |-> None, plc_no |-> None, plc_ip |-> None, opcua_url |-> None,
    status |-> None, last_checked |-> None, is_connected |-> None ]

\* The updates POST /api/plcs/:id/connect and /disconnect hand to updatePLC.
connectionUpdates(connected) ==
  [ NoUpdates EXCEPT
      !.is_connected = Some(connected),
      !.status       = Some(IF connected THEN "active" ELSE "maintenance"),
      !.last_checked = Some([ isDate |-> TRUE, iso |-> NowISO ]) ]

\* A handler that answers what updatePLC returns: PUT /api/plcs/:id with
\* the body as it came, and connect and disconnect. The statements of
\* updatePLC: the select ("start"; without a row the answer is 404, and 500
\* when updateData cannot be built), the update ("update"; 500 when the
\* statement fails) and the select of the row returned ("reread"; 404 when
\* the row is gone).
updatePLCStep(req, id, updates, tables) ==
  LET existing == getPLCById(tables.plcs, id)
  IN IF req.pc = "start"
     THEN IF existing = None THEN Answers(req, 404, tables)
          ELSE IF updateDataThrows(updates)
          THEN Answers([ req EXCEPT !.found = existing ], 500, tables)
          ELSE Goes([ req EXCEPT !.found = existing ], "update", 0, tables)
     ELSE IF req.pc = "update"
     THEN IF updateViolatesUnique(tables.plcs, id, updates, tables.plcIpUnique)
          THEN Answers(req, 500, tables)
          ELSE Goes(req, "reread", 0,
                    [ tables EXCEPT !.plcs = updatePLCRows(@, id, updates) ])
     ELSE IF existing = None THEN Answers(req, 404, tables)
          ELSE Answers([ req EXCEPT !.rows = << Get(existing) >> ], 200, tables)

\* PUT /api/opcua-nodes/:id with the id and the parsed body of req.arg. The
\* statements of updateOpcuaNode: the select ("start"; without a row the
\* answer is 404), the update ("update") and the select of the row returned
\* ("reread"; 404 when the row is gone).
updateOpcuaNodeStep(req, tables) ==
  LET id       == req.arg.id
      existing == getOpcuaNodeById(tables.nodes, id)
  IN IF req.pc = "start"
     THEN IF existing = None THEN Answers(req, 404, tables)
          ELSE Goes([ req EXCEPT !.found = existing ], "update", 0, tables)
     ELSE IF req.pc = "update"
     THEN Goes(req, "reread", 0,
               [ tables EXCEPT !.nodes = updateOpcuaNodeRows(@, id, req.arg.updates) ])
     ELSE IF existing = None THEN Answers(req, 404, tables)
          ELSE Answers([ req EXCEPT !.rows = << Get(existing) >> ], 200, tables)

\* The next statement of the handler of a request.
handlerStep(req, tables) ==
  IF req.kind = "upload" THEN uploadStep(req, tables)
  ELSE IF req.kind = "deleteByNumber" THEN deleteByNumberStep(req, tables)
  ELSE IF req.kind = "deletePLC" THEN deletePLCStep(req, tables)
  ELSE IF req.kind = "createPLC" THEN createPLCStep(req, tables)
  ELSE IF req.kind = "connect"
  THEN updatePLCStep(req, req.arg, connectionUpdates(TRUE), tables)
  ELSE IF req.kind = "disconnect"
  THEN updatePLCStep(req, req.arg, connectionUpdates(FALSE), tables)
  ELSE IF req.kind = "updatePLC"
  THEN updatePLCStep(req, req.arg.id, req.arg.updates, tables)
  ELSE updateOpcuaNodeStep(req, tables)


(***************************************************************************)
(* Server specifications. The upload specification serves the routes that  *)
(* write the opcua_nodes table, on a store that starts with one PLC row;   *)
(* the PLC specification serves the routes that write the plcs table, on a *)
(* store without nodes. In both, up to MaxPending requests are in flight   *)
(* and their statements interleave in any order. lastRequest is the        *)
(* request answered by the last step, if that step answered one of the     *)
(* upload, delete by number, create, connect and disconnect routes, in the *)
(* state its handler ended in. guarded and released record what the        *)
(* requests so far have done: guarded holds a PLC number with a document   *)
(* when a successful upload of the document created a node of the number   *)
(* and no successful deletion of the number has followed; released holds   *)
(* the documents that the last step, a successful deletion by number,      *)
(* removed from guarded.                                                   *)
(***************************************************************************)
MaxUploadPLCs == 2
MaxStoredNodes == 3
MaxNodeId == 3
MaxPlcId == 2
MaxPending == 2
MaxUpdatedNodeId == 1

IpA == << "1", "0", ".", "0", ".", "0", ".", "1" >>
IpB == << "1", "0", ".", "0", ".", "0", ".", "2" >>
UrlA == << "o", "p", "c", ".", "t", "c", "p", ":", "/", "/", "a" >>
UrlB == << "o", "p", "c", ".", "t", "c", "p", ":", "/", "/", "b" >>

UploadPLC(no, ip, url, mappings) ==
  [ plc_name         |-> << "L" >>,
    plc_no           |-> no,
    plc_ip           |-> ip,
    opcua_url        |-> url,
    address_mappings |-> mappings ]

TwoBits ==
  CHOOSE b \in BitRecords(2) :
    Len(b) = 2 /\ b[1].value.bit_position = 12 /\ b[2].value.bit_position = 0
      /\ b[2].key # << "x" >>

\* PLC entries of uploaded documents: with the number 0, a bool and a
\* channel whose bit_mappings record is empty, and with the number 2 and a
\* channel of two bits.
UploadPLCs ==
  << UploadPLC(Some(0), IpA, UrlA,
               Some(<< Mapping(<< "P" >>, "bool", None),
                       Mapping(<< "R" >>, "channel", MetadataOf(<< >>)) >>)),
     UploadPLC(Some(2), IpB, UrlB,
               Some(<< Mapping(<< "P" >>, "channel", MetadataOf(TwoBits)) >>)) >>

\* The entries of UploadPLCs whose index is chosen, in order.
RECURSIVE ChosenPLCs(_, _)
ChosenPLCs(chosen, i) ==
  IF i > Len(UploadPLCs) THEN << >>
  ELSE (IF i \in chosen THEN << UploadPLCs[i] >> ELSE << >>) \o ChosenPLCs(chosen, i + 1)

\* The uploaded documents: from one to MaxUploadPLCs different entries, and
\* a document without plcs.
UploadDocs ==
  { Document("array", ChosenPLCs(chosen, 1)) :
      chosen \in { c \in SUBSET (1..Len(UploadPLCs)) :
                      c # { } /\ Cardinality(c) <= MaxUploadPLCs } }
    \cup { Document("undefined", << >>) }

\* Bodies of POST /api/plcs that pass plcConfigSchema.
PlcConfigs ==
  { [ plc_name |-> << "L" >>, plc_no |-> 1, plc_ip |-> IpA, opcua_url |-> UrlA,
      address_mappings |-> << >> ],
    [ plc_name |-> << "L" >>, plc_no |-> 2, plc_ip |-> IpB, opcua_url |-> UrlB,
      address_mappings |-> << >> ] }

\* Bodies of PUT /api/plcs/:id, which the handler does not validate: one
\* writes every column but status and last_checked, the other carries a
\* last_checked, which in a JSON body is a string.
PlcUpdates ==
  { [ NoUpdates EXCEPT !.plc_name = Some(<< "M" >>), !.plc_no = Some(0),
                       !.plc_ip = Some(IpA), !.opcua_url = Some(UrlA),
                       !.is_connected = Some(TRUE) ],
    [ NoUpdates EXCEPT !.last_checked = Some([ isDate |-> FALSE, iso |-> NowISO ]) ] }

\* A body of POST /api/opcua-nodes that passes createOpcuaNodeSchema.
NodeBodies ==
  { [ plc_no |-> Some(2), nodeName |-> << "P" >>, description |-> << "m" >>,
      value |-> None, timestamp |-> Some(<< "t" >>), datatype |-> "bool",
      regAdd |-> << "D", "1" >>, userDescription |-> None ] }

\* A body of PUT /api/opcua-nodes/:id that passes updateOpcuaNodeSchema: it
\* moves the node to the number 2 and writes every other column.
NodeUpdates ==
  { [ plc_no          |-> Some(2),
      nodeName        |-> Some(<< "Q" >>),
      description     |-> Some(<< "n" >>),
      value           |-> Some(<< "1" >>),
      timestamp       |-> Some(<< "t" >>),
      datatype        |-> Some("word"),
      regAdd          |-> Some(<< "D", "2" >>),
      userDescription |-> Some(<< "u" >>) ] }

\* The numbers of DELETE /api/plcs/by-number/:plc_no.
PlcNumbers == { 0, 2 }

\* The tables as a step finds them.
Stored ==
  [ plcIpUnique |-> plcIpUnique, plcs |-> plcRows, nodes |-> nodeRows,
    nextPlcId |-> nextPlcId, nextNodeId |-> nextNodeId ]

GuardedNumbers == { g.no : g \in guarded }

\* A request as it arrives.
Arrived(kind, arg) ==
  [ kind            |-> kind,
    arg             |-> arg,
    pc              |-> "start",
    i               |-> 0,
    rows            |-> << >>,
    count           |-> 0,
    found           |-> None,
    guardedAtStart  |-> IF kind = "upload" THEN GuardedNumbers ELSE { },
    releasedAtStart |-> kind = "upload" /\ arg \in released ]

\* A request answered, of the routes the properties below speak of: the
\* handler's state at its last statement and the status. guardedBefore
\* holds the numbers guarded from the arrival of the request to its answer.
Completed(req, status) ==
  IF req.kind \in { "upload", "deleteByNumber", "createPLC", "connect", "disconnect" }
  THEN Some([ kind           |-> req.kind,
              arg            |-> req.arg,
              pc             |-> req.pc,
              i              |-> req.i,
              status         |-> status,
              rows           |-> req.rows,
              count          |-> req.count,
              found          |-> req.found,
              guardedBefore  |-> req.guardedAtStart \cap GuardedNumbers,
              releasedBefore |-> req.releasedAtStart ])
  ELSE None

\* The plcs table at the start of the upload specification: the row of one
\* PLC created before.
StoredPlcTables ==
  { createPLC(<< >>, 1, [ plc_name |-> << "L" >>, plc_no |-> 2, plc_ip |-> IpB,
                          opcua_url |-> UrlB, address_mappings |-> << >> ], TRUE).plcs }

\* No route of the upload specification inserts a PLC or writes a plc_ip,
\* so the unique index is never consulted there.
InitUpload ==
  /\ plcIpUnique = TRUE
  /\ plcRows \in StoredPlcTables
  /\ nodeRows = << >>
  /\ nextPlcId = Len(plcRows) + 1
  /\ nextNodeId = 1
  /\ pending = << >>
  /\ lastRequest = None
  /\ guarded = { }
  /\ released = { }
  /\ IdleNorm
  /\ IdleGroup
  /\ IdleFilter
  /\ IdleBits
  /\ IdleDesc
  /\ IdleSocket

InitPlcs ==
  /\ plcIpUnique \in BOOLEAN
  /\ plcRows = << >>
  /\ nodeRows = << >>
  /\ nextPlcId = 1
  /\ nextNodeId = 1
  /\ pending = << >>
  /\ lastRequest = None
  /\ guarded = { }
  /\ released = { }
  /\ IdleNorm
  /\ IdleGroup
  /\ IdleFilter
  /\ IdleBits
  /\ IdleDesc
  /\ IdleSocket

\* One step r of a handler: of the request at position k of pending, or of
\* a request that arrives (k = 0). A request that has not been answered
\* stays in flight.
Step(k, r) ==
  LET answered  == IsSome(r.status)
      succeeded == answered /\ Get(r.status) = 200
  IN /\ (k = 0 /\ ~answered) => Len(pending) < MaxPending
     /\ Len(r.tables.nodes) <= MaxStoredNodes
     /\ r.tables.nextNodeId <= MaxNodeId + 1
     /\ r.tables.nextPlcId <= MaxPlcId + 1
     /\ plcIpUnique' = r.tables.plcIpUnique
     /\ plcRows' = r.tables.plcs
     /\ nodeRows' = r.tables.nodes
     /\ nextPlcId' = r.tables.nextPlcId
     /\ nextNodeId' = r.tables.nextNodeId
     /\ pending' = IF k = 0
                   THEN (IF answered THEN pending ELSE Append(pending, r.req))
                   ELSE IF answered
                   THEN SubSeq(pending, 1, k - 1) \o SubSeq(pending, k + 1, Len(pending))
                   ELSE [ pending EXCEPT ![k] = r.req ]
     /\ lastRequest' = IF answered THEN Completed(r.req, Get(r.status)) ELSE None
     /\ guarded' = IF succeeded /\ r.req.kind = "upload"
                   THEN guarded \cup { [ no |-> r.req.rows[j].plc_no, doc |-> r.req.arg ] :
                                         j \in 1..Len(r.req.rows) }
                   ELSE IF succeeded /\ r.req.kind = "deleteByNumber"
                   THEN { g \in guarded : g.no # r.req.arg }
                   ELSE guarded
     /\ released' = IF succeeded /\ r.req.kind = "deleteByNumber"
                    THEN { g.doc : g \in { h \in guarded : h.no = r.req.arg } }
                    ELSE { }
     /\ UNCHANGED << normVars, groupVars, filterVars, bitVars, descVars, socketVars >>

\* POST /api/upload/json arrives.
Upload ==
  \E json \in UploadDocs : Step(0, handlerStep(Arrived("upload", json), Stored))

\* DELETE /api/plcs/by-number/:plc_no arrives.
DeleteByNumber ==
  \E plcNo \in PlcNumbers :
    Step(0, handlerStep(Arrived("deleteByNumber", plcNo), Stored))

\* DELETE /api/plcs/:id arrives, for an id handed out.
DeletePLC ==
  \E id \in 1..(nextPlcId - 1) : Step(0, handlerStep(Arrived("deletePLC", id), Stored))

\* POST /api/plcs arrives.
CreatePLC ==
  \E config \in PlcConfigs : Step(0, handlerStep(Arrived("createPLC", config), Stored))

\* POST /api/plcs/:id/connect arrives, for an id handed out or the next one.
Connect ==
  \E id \in 1..nextPlcId : Step(0, handlerStep(Arrived("connect", id), Stored))

\* POST /api/plcs/:id/disconnect arrives.
Disconnect ==
  \E id \in 1..nextPlcId : Step(0, handlerStep(Arrived("disconnect", id), Stored))

\* PUT /api/plcs/:id arrives.
UpdatePLC ==
  \E id \in 1..nextPlcId : \E updates \in PlcUpdates :
    Step(0, handlerStep(Arrived("updatePLC", [ id |-> id, updates |-> updates ]), Stored))

\* PUT /api/opcua-nodes/:id arrives, for an id up to MaxUpdatedNodeId or the
\* id the next node will get.
UpdateNode ==
  \E id \in (1..MaxUpdatedNodeId) \cup { nextNodeId } : \E updates \in NodeUpdates :
    Step(0, handlerStep(Arrived("updateNode", [ id |-> id, updates |-> updates ]), Stored))

\* The next statement of a request in flight.
Resume == \E k \in 1..Len(pending) : Step(k, handlerStep(pending[k], Stored))

\* POST /api/opcua-nodes: the one statement of createOpcuaNode.
CreateNode ==
  \E body \in NodeBodies :
    LET r == createOpcuaNode(nodeRows, nextNodeId, body)
    IN Step(0, Answers(Arrived("createNode", body), 201,
                       [ Stored EXCEPT !.nodes = r.nodes, !.nextNodeId = r.nextId ]))

\* DELETE /api/opcua-nodes/:id: the one statement of deleteOpcuaNode.
DeleteNode ==
  \E id \in 1..nextNodeId :
    LET r == deleteOpcuaNode(nodeRows, id)
    IN Step(0, Answers(Arrived("deleteNode", id), IF r.deleted THEN 204 ELSE 404,
                       [ Stored EXCEPT !.nodes = r.nodes ]))

NextUpload ==
  \/ Upload
  \/ DeleteByNumber
  \/ DeletePLC
  \/ CreateNode
  \/ UpdateNode
  \/ DeleteNode
  \/ Resume

SpecUpload == InitUpload /\ [][NextUpload]_vars

NextPlcs ==
  \/ CreatePLC
  \/ Connect
  \/ Disconnect
  \/ UpdatePLC
  \/ DeletePLC
  \/ DeleteByNumber
  \/ Resume

SpecPlcs == InitPlcs /\ [][NextPlcs]_vars


\* Vocabulary of the server claims: the request answered by the last step,
\* and the request a step answers.
LastIs(kind) == IsSome(lastRequest) /\ Get(lastRequest).kind = kind

LastAnswered == Get(lastRequest)

StepAnswers(kind) == IsSome(lastRequest') /\ Get(lastRequest').kind = kind

Answer == Get(lastRequest')

\* The numbers of the PLC entries of an uploaded document.
NumbersOfDoc(json) ==
  IF PlcsInvalid(json) THEN { }
  ELSE { json.plcs.items[i].plc_no : i \in 1..Len(json.plcs.items) }

(***************************************************************************)
(* C22: an upload that is answered 409 has created no node: its handler    *)
(* holds no created node, its totalCreated is 0, and the step that answers *)
(* leaves the stored nodes as they were.                                   *)
(***************************************************************************)
C22_ConflictCreatesNothing ==
  /\ []((LastIs("upload") /\ LastAnswered.status = 409) =>
          /\ LastAnswered.rows = << >>
          /\ LastAnswered.count = 0)
  /\ [][ (StepAnswers("upload") /\ Answer.status = 409) =>
           /\ nodeRows' = nodeRows
           /\ nextNodeId' = nextNodeId ]_vars

\* A document of two PLCs, the first new and with nodes to create, the
\* second with the number 2 and not stored as a PLC, was answered 409 at
\* the check of the nodes of its second PLC.
C22_Witness ==
  /\ LastIs("upload")
  /\ LastAnswered.status = 409
  /\ Len(LastAnswered.arg.plcs.items) = 2
  /\ LastAnswered.pc = "checkNodes"
  /\ LastAnswered.i = 2
  /\ Len(nodeDataOfPlc(LastAnswered.arg.plcs.items[1])) > 0
  /\ LastAnswered.arg.plcs.items[2].plc_no = Some(2)
  /\ Len(getOpcuaNodesByPlcNo(nodeRows, 2)) > 0


(***************************************************************************)
(* C23: once a successful upload has created at least one node for PLC     *)
(* number n, every later upload of a document that contains a PLC with     *)
(* plc_no n is answered 409 and creates no node, until a deletion by       *)
(* number has removed the nodes of n; after that deletion the same         *)
(* document uploads successfully again.                                    *)
(***************************************************************************)
C23_GuardedUntilDeleted ==
  LastIs("upload") =>
    /\ (\E n \in LastAnswered.guardedBefore : Some(n) \in NumbersOfDoc(LastAnswered.arg)) =>
         ( /\ LastAnswered.status = 409
           /\ LastAnswered.rows = << >> )
    /\ LastAnswered.releasedBefore => LastAnswered.status = 200


SamePair(row, config) ==
  row.plc_ip = config.plc_ip /\ row.opcua_url = config.opcua_url

(***************************************************************************)
(* C24: in any interleaving of two POST /api/plcs requests that carry the  *)
(* same plc_ip and opcua_url, at most one creates a PLC and the other is   *)
(* answered 409: the store never holds two PLCs with the same pair, and a  *)
(* request answered when a PLC with its pair is stored is answered 409 and *)
(* leaves the store as it was. The duplicate check of the handler and the  *)
(* insert are two statements, so this is as true as the table of ./db      *)
(* makes it: it holds of the table with the unique index on plc_ip         *)
(* (C24_OnePLCPerPairWithIndex) and fails of the table without.            *)
(***************************************************************************)
C24_OnePLCPerPair ==
  /\ [](\A i, j \in 1..Len(plcRows) : SamePair(plcRows[i], plcRows[j]) => i = j)
  /\ [][ ( /\ StepAnswers("createPLC")
           /\ \E i \in 1..Len(plcRows) : SamePair(plcRows[i], Answer.arg) )
         => ( /\ Answer.status = 409
              /\ plcRows' = plcRows ) ]_vars

\* C24 on the table that has the unique index on plc_ip.
C24_OnePLCPerPairWithIndex ==
  /\ [](plcIpUnique =>
          \A i, j \in 1..Len(plcRows) : SamePair(plcRows[i], plcRows[j]) => i = j)
  /\ [][ ( /\ plcIpUnique
           /\ StepAnswers("createPLC")
           /\ \E i \in 1..Len(plcRows) : SamePair(plcRows[i], Answer.arg) )
         => ( /\ Answer.status = 409
              /\ plcRows' = plcRows ) ]_vars

\* Two requests with the same pair passed the duplicate check together; the
\* insert of the second failed on the unique index and was answered 409.
C24_Witness ==
  /\ plcIpUnique
  /\ LastIs("createPLC")
  /\ LastAnswered.pc = "insert"
  /\ LastAnswered.status = 409
  /\ Len(plcRows) = 1
  /\ SamePair(plcRows[1], LastAnswered.arg)

\* The rows with the id in a plcs table.
RowsWithId(plcs, id) == { i \in 1..Len(plcs) : plcs[i].id = id }

\* The step sets the connection of every PLC with the id, together with
\* its status, and leaves every other column and every other PLC alone.
ConnectionSetTo(id, connected) ==
  /\ Len(plcRows') = Len(plcRows)
  /\ \A i \in 1..Len(plcRows) :
       IF plcRows[i].id = id
       THEN /\ plcRows'[i].is_connected = connected
            /\ plcRows'[i].status = (IF connected THEN "active" ELSE "maintenance")
            /\ \A f \in { "id", "plc_name", "plc_no", "plc_ip", "opcua_url", "created_at" } :
                 plcRows'[i][f] = plcRows[i][f]
       ELSE plcRows'[i] = plcRows[i]

\* Every PLC of the table is connected exactly when its status is 'active'.
ConnectionMatchesStatus(plcs) ==
  \A i \in 1..Len(plcs) : plcs[i].is_connected = (plcs[i].status = "active")

ConnectionKinds == { "connect", "disconnect" }

\* The step is the first statement of a request that arrives, and the next
\* statement of the request at position k of pending.
Arrives(kind, arg) == Step(0, handlerStep(Arrived(kind, arg), Stored))

Resumes(k) == Step(k, handlerStep(pending[k], Stored))

\* A statement of a create, connect or disconnect request runs.
CreateOrConnectionStep ==
  \/ CreatePLC
  \/ Connect
  \/ Disconnect
  \/ \E k \in 1..Len(pending) :
       pending[k].kind \in ConnectionKinds \cup { "createPLC" } /\ Resumes(k)

(***************************************************************************)
(* C25: a PLC is created with is_connected false and status 'maintenance'; *)
(* the update statement of a connect request sets is_connected true and    *)
(* status 'active' on the PLC with its id, that of a disconnect request    *)
(* false and 'maintenance'; a connect or disconnect request that arrives   *)
(* for an id no row has is answered 404 at once, and every step that       *)
(* answers such a request leaves the PLCs as they were, with 404 exactly   *)
(* when no row has the id then. Hence every statement of a create, connect *)
(* or disconnect request, run on a store in which every PLC has            *)
(* is_connected true exactly when its status is 'active', leaves such a    *)
(* store, whatever statements of other requests run in between.            *)
(***************************************************************************)
C25_ConnectionMatchesStatus ==
  [][ /\ (StepAnswers("createPLC") /\ Answer.status = 201) =>
           /\ Len(plcRows') = Len(plcRows) + 1
           /\ plcRows'[Len(plcRows')].is_connected = FALSE
           /\ plcRows'[Len(plcRows')].status = "maintenance"
           /\ SubSeq(plcRows', 1, Len(plcRows)) = plcRows
      /\ \A k \in 1..Len(pending) :
           ( /\ pending[k].kind \in ConnectionKinds
             /\ pending[k].pc = "update"
             /\ Resumes(k) )
           => ConnectionSetTo(pending[k].arg, pending[k].kind = "connect")
      /\ \A kind \in ConnectionKinds : \A id \in 1..nextPlcId :
           (RowsWithId(plcRows, id) = { } /\ Arrives(kind, id))
             => (StepAnswers(kind) /\ Answer.arg = id /\ Answer.status = 404)
      /\ (StepAnswers("connect") \/ StepAnswers("disconnect")) =>
           /\ plcRows' = plcRows
           /\ Answer.status \in { 200, 404 }
           /\ Answer.status = 404 <=> RowsWithId(plcRows, Answer.arg) = { }
           /\ Answer.status = 200 =>
                \E i \in RowsWithId(plcRows, Answer.arg) : Answer.rows = << plcRows[i] >>
      /\ (ConnectionMatchesStatus(plcRows) /\ ~ConnectionMatchesStatus(plcRows'))
           => ~CreateOrConnectionStep ]_vars

\* A connected PLC has been disconnected while another PLC is stored: the
\* request selected the row connected and is answered with the row not
\* connected.
C25_Witness ==
  /\ LastIs("disconnect")
  /\ LastAnswered.status = 200
  /\ Len(plcRows) = 2
  /\ ConnectionMatchesStatus(plcRows)
  /\ Get(LastAnswered.found).is_connected
  /\ Get(LastAnswered.found).status = "active"
  /\ ~LastAnswered.rows[1].is_connected
  /\ LastAnswered.rows[1].status = "maintenance"
  /\ \E i \in RowsWithId(plcRows, LastAnswered.arg) : plcRows[i] = LastAnswered.rows[1]



\* The number of nodes the claim gives an address mapping.
ExpectedCount(mapping) ==
  IF HasBitMappings(mapping) THEN Len(BitEntries(mapping)) ELSE 1

\* The nodes due for the first k mappings of a list, and for the first p PLC
\* entries of a document.
RECURSIVE ExpectedOfMappings(_, _)
ExpectedOfMappings(mappings, k) ==
  IF k = 0 THEN 0
  ELSE ExpectedOfMappings(mappings, k - 1) + ExpectedCount(mappings[k])

RECURSIVE ExpectedOfPlcs(_, _)
ExpectedOfPlcs(items, p) ==
  IF p = 0 THEN 0
  ELSE ExpectedOfPlcs(items, p - 1)
         + ExpectedOfMappings(MappingsOf(items[p]), Len(MappingsOf(items[p])))

\* The rows the inserts of the last request returned, in order.
NodesAdded == LastAnswered.rows

(***************************************************************************)
(* C28: a successful upload creates, for each address mapping of each PLC  *)
(* that has an address_mappings array, exactly one node per bit_mappings   *)
(* entry when metadata.bit_mappings is present (named                      *)
(* '{opcua_reg_add}_{bit_position padded to 2 digits}', datatype 'BOOL',   *)
(* and no node for the channel itself) and exactly one node otherwise; the *)
(* totalCreated of the response equals the number of rows the request      *)
(* added, which are different rows.                                        *)
(***************************************************************************)
C28_NodesPerMapping ==
  (LastIs("upload") /\ LastAnswered.status = 200) =>
    LET items == LastAnswered.arg.plcs.items
    IN /\ Len(NodesAdded) = ExpectedOfPlcs(items, Len(items))
       /\ LastAnswered.count = Len(NodesAdded)
       /\ \A a, b \in 1..Len(NodesAdded) : a < b => NodesAdded[a].id < NodesAdded[b].id
       /\ \A p \in 1..Len(items) : \A m \in 1..Len(MappingsOf(items[p])) :
            LET mapping == MappingsOf(items[p])[m]
                first   == ExpectedOfPlcs(items, p - 1)
                             + ExpectedOfMappings(MappingsOf(items[p]), m - 1)
            IN IF HasBitMappings(mapping)
               THEN \A b \in 1..Len(BitEntries(mapping)) :
                      LET node == NodesAdded[first + b]
                          bit  == BitEntries(mapping)[b].value
                      IN /\ node.nodeName = mapping.opcua_reg_add \o << "_" >>
                              \o PadStart(NumToString(bit.bit_position), 2, "0")
                         /\ node.datatype = "BOOL"
                         /\ node.plc_no = Get(items[p].plc_no)
               ELSE LET node == NodesAdded[first + 1]
                    IN /\ node.nodeName = mapping.opcua_reg_add
                       /\ node.datatype = mapping.data_type
                       /\ node.plc_no = Get(items[p].plc_no)

\* A document whose first PLC has a bool and a channel with an empty
\* bit_mappings record and whose second has a channel with two bits has
\* been uploaded: three nodes, "P", "P_12" and "P_00".
C28_Witness ==
  /\ LastIs("upload")
  /\ LastAnswered.status = 200
  /\ Len(LastAnswered.arg.plcs.items) = 2
  /\ Len(MappingsOf(LastAnswered.arg.plcs.items[1])) = 2
  /\ Len(MappingsOf(LastAnswered.arg.plcs.items[2])) = 1
  /\ LastAnswered.count = 3
  /\ Len(NodesAdded) = 3
  /\ NodesAdded[1].nodeName = << "P" >>
  /\ NodesAdded[1].datatype = "bool"
  /\ NodesAdded[2].nodeName = << "P", "_", "1", "2" >>
  /\ NodesAdded[2].datatype = "BOOL"
  /\ NodesAdded[3].nodeName = << "P", "_", "0", "0" >>
  /\ NodesAdded[3].datatype = "BOOL"



(***************************************************************************)
(* User descriptions (SqliteStorage.userDescriptions)                      *)
(*                                                                         *)
(* The Map is the sequence of its [key, value] entries in insertion order. *)
(* descClock is the time of the last reading of the clock and uuidsMade    *)
(* the number of identifiers randomUUID has produced, the k-th being k.    *)
(* lastSave records the last call of saveUserDescription with the entry    *)
(* and the size of the Map it found, and savedPairs the description of the *)
(* latest save of each (plcId, nodeId) pair.                               *)
(***************************************************************************)
MaxClock == 2

\* `${plcId}-${nodeId}`
descriptionKey(plcId, nodeId) == plcId \o << "-" >> \o nodeId

\* Map.prototype.get
MapGet(map, key) ==
  IF \E i \in 1..Len(map) : map[i].key = key
  THEN Some(map[CHOOSE i \in 1..Len(map) : map[i].key = key].value)
  ELSE None

getUserDescription(map, plcId, nodeId) ==
  MapGet(map, descriptionKey(plcId, nodeId))

\* Variant of savedEntry: every save gets a new identifier and a new
\* creation time.
savedEntryAnew(map, plcId, nodeId, description, now, uuid) ==
  [ id               |-> uuid,
    plc_id           |-> plcId,
    node_id          |-> nodeId,
    user_description |-> description,
    created_at       |-> now,
    updated_at       |-> now ]

\* The entry saveUserDescription stores and returns; uuid is what
\* randomUUID gives when it is called.
savedEntry(map, plcId, nodeId, description, now, uuid) ==
  LET existing == getUserDescription(map, plcId, nodeId)
  IN [ id               |-> IF IsSome(existing) THEN Get(existing).id ELSE uuid,
       plc_id           |-> plcId,
       node_id          |-> nodeId,
       user_description |-> description,
       created_at       |-> IF IsSome(existing) THEN Get(existing).created_at ELSE now,
       updated_at       |-> now ]

saveUserDescription(map, plcId, nodeId, description, now, uuid) ==
  SetKey(map, descriptionKey(plcId, nodeId),
         savedEntry(map, plcId, nodeId, description, now, uuid))

RECURSIVE valuesFrom(_, _, _)
valuesFrom(map, plcId, i) ==
  IF i > Len(map) THEN << >>
  ELSE (IF map[i].value.plc_id = plcId THEN << map[i].value >> ELSE << >>)
         \o valuesFrom(map, plcId, i + 1)

getAllUserDescriptions(map, plcId) == valuesFrom(map, plcId, 1)

\* Route parameters and bodies of POST /api/plcs/:plcId/descriptions/:nodeId.
DescPlcIds == { << "a" >>, << "a", "-", "b" >> }

DescNodeIds == { << "c" >>, << "b", "-", "c" >> }

\* The (plcId, nodeId) pairs of the requests: two that differ in where the
\* '-' stands, and a third.
DescPairs ==
  { pair \in DescPlcIds \X DescNodeIds :
      pair # << << "a", "-", "b" >>, << "b", "-", "c" >> >> }

DescTexts == { << "x" >>, << >> }

InitDesc ==
  /\ userDescriptions = << >>
  /\ descClock = 0
  /\ uuidsMade = 0
  /\ lastSave = None
  /\ savedPairs = { }
  /\ IdleNorm
  /\ IdleGroup
  /\ IdleFilter
  /\ IdleBits
  /\ IdleServer
  /\ IdleSocket

\* POST /api/plcs/:plcId/descriptions/:nodeId with a string description; the
\* clock has not gone back since the last save.
SaveUserDescription ==
  \E pair \in DescPairs, description \in DescTexts, now \in descClock..MaxClock :
    LET plcId    == pair[1]
        nodeId   == pair[2]
        existing == getUserDescription(userDescriptions, plcId, nodeId)
        returned == savedEntry(userDescriptions, plcId, nodeId, description,
                               now, uuidsMade + 1)
    IN /\ userDescriptions' = saveUserDescription(userDescriptions, plcId, nodeId,
                                                  description, now, uuidsMade + 1)
       /\ descClock' = now
       /\ uuidsMade' = IF IsSome(existing) THEN uuidsMade ELSE uuidsMade + 1
       /\ lastSave' = Some([ plcId       |-> plcId,
                             nodeId      |-> nodeId,
                             description |-> description,
                             now         |-> now,
                             returned    |-> returned,
                             existing    |-> existing,
                             sizeBefore  |-> Len(userDescriptions) ])
       /\ savedPairs' = { s \in savedPairs : s.plcId # plcId \/ s.nodeId # nodeId }
                          \cup { [ plcId |-> plcId, nodeId |-> nodeId,
                                   description |-> description ] }
       /\ UNCHANGED << normVars, groupVars, filterVars, bitVars, serverVars, socketVars >>

NextDesc == SaveUserDescription

SpecDesc == InitDesc /\ [][NextDesc]_vars


(***************************************************************************)
(* C27: user descriptions are isolated per (plcId, nodeId) pair: after     *)
(* saveUserDescription(p, n, d), getUserDescription(p, n) returns d, and a *)
(* later save for a different pair leaves it so, for all string ids,       *)
(* ids that contain '-' included.                                          *)
(***************************************************************************)
C27_DescriptionsIsolated ==
  \A s \in savedPairs :
    LET found == getUserDescription(userDescriptions, s.plcId, s.nodeId)
    IN /\ IsSome(found)
       /\ Get(found).user_description = s.description

\* The last call of saveUserDescription.
LastSave == Get(lastSave)

\* The last save found an entry saved for its own pair.
SavedAgain ==
  /\ IsSome(lastSave)
  /\ IsSome(LastSave.existing)
  /\ Get(LastSave.existing).plc_id = LastSave.plcId
  /\ Get(LastSave.existing).node_id = LastSave.nodeId

(***************************************************************************)
(* C30: saving again for the same (plcId, nodeId) keeps the entry's id and *)
(* created_at, replaces user_description and updated_at, and never creates *)
(* a second entry; getAllUserDescriptions(plcId) has at most one entry per *)
(* nodeId and only entries whose plc_id is plcId.                          *)
(***************************************************************************)
C30_SaveAgainKeepsIdentity ==
  /\ SavedAgain =>
       /\ LastSave.returned.id = Get(LastSave.existing).id
       /\ LastSave.returned.created_at = Get(LastSave.existing).created_at
       /\ LastSave.returned.user_description = LastSave.description
       /\ LastSave.returned.updated_at = LastSave.now
       /\ Len(userDescriptions) = LastSave.sizeBefore
       /\ getUserDescription(userDescriptions, LastSave.plcId, LastSave.nodeId)
            = Some(LastSave.returned)
  /\ \A plcId \in DescPlcIds :
       LET all == getAllUserDescriptions(userDescriptions, plcId)
       IN \A i, j \in 1..Len(all) :
            /\ all[i].plc_id = plcId
            /\ all[i].node_id = all[j].node_id => i = j

\* A pair was saved again, later and with another description, while the
\* Map held two entries of its PLC.
C30_Witness ==
  /\ SavedAgain
  /\ Get(LastSave.existing).user_description # LastSave.description
  /\ Get(LastSave.existing).updated_at < LastSave.now
  /\ Get(LastSave.existing).created_at < LastSave.returned.updated_at
  /\ Len(getAllUserDescriptions(userDescriptions, LastSave.plcId)) = 2



(***************************************************************************)
(* SocketManager (src/client/src/lib/socket.ts)                            *)
(*                                                                         *)
(* sockets holds every socket io() has created, in order of creation, with *)
(* whether it is connected and whether its disconnect() has been called;   *)
(* socket is this.socket, the index of the held socket. A socket created   *)
(* with autoConnect connects some time after its creation, may lose its    *)
(* connection and connects again unless disconnect() has been called.      *)
(* emitted is the sequence of the events emitted, and lastCall the last    *)
(* call of a method with what it found and what it returned.               *)
(***************************************************************************)
MaxSockets == 3
MaxEmitted == 2

SocketPlcIds == { << "p", "1" >>, << "p", "2" >> }

\* this.socket?.connected
heldConnected(held, all) == IsSome(held) /\ all[Get(held)].connected

\* io("http://localhost:5000", { autoConnect: true })
io(all) == Append(all, [ connected |-> FALSE, disconnected |-> FALSE ])

\* connect(): the sockets, the held socket and the socket returned.
connect(held, all) ==
  IF heldConnected(held, all)
  THEN [ sockets |-> all, socket |-> held, returned |-> held ]
  ELSE [ sockets |-> io(all), socket |-> Some(Len(all) + 1),
         returned |-> Some(Len(all) + 1) ]

\* disconnect()
disconnect(held, all) ==
  IF IsSome(held)
  THEN [ sockets |-> [ all EXCEPT ![Get(held)] =
                         [ connected |-> FALSE, disconnected |-> TRUE ] ],
         socket  |-> None ]
  ELSE [ sockets |-> all, socket |-> held ]

getSocket(held) == held

\* subscribeToPLC and unsubscribeFromPLC: the events emitted after the call.
emitIfHeld(held, log, event, plcId) ==
  IF IsSome(held)
  THEN Append(log, [ socket |-> Get(held), event |-> event, plcId |-> plcId ])
  ELSE log

Called(op, returned) ==
  Some([ op            |-> op,
         returned      |-> returned,
         heldBefore    |-> socket,
         wasConnected  |-> heldConnected(socket, sockets),
         socketsBefore |-> Len(sockets),
         emittedBefore |-> emitted ])

InitSocket ==
  /\ socket = None
  /\ sockets = << >>
  /\ emitted = << >>
  /\ lastCall = None
  /\ IdleNorm
  /\ IdleGroup
  /\ IdleFilter
  /\ IdleBits
  /\ IdleServer
  /\ IdleDesc

SocketConnect ==
  LET r == connect(socket, sockets)
  IN /\ Len(r.sockets) <= MaxSockets
     /\ sockets' = r.sockets
     /\ socket' = r.socket
     /\ lastCall' = Called("connect", r.returned)
     /\ UNCHANGED emitted
     /\ UNCHANGED << normVars, groupVars, filterVars, bitVars, serverVars, descVars >>

SocketDisconnect ==
  LET r == disconnect(socket, sockets)
  IN /\ sockets' = r.sockets
     /\ socket' = r.socket
     /\ lastCall' = Called("disconnect", None)
     /\ UNCHANGED emitted
     /\ UNCHANGED << normVars, groupVars, filterVars, bitVars, serverVars, descVars >>

SubscribeToPLC ==
  \E plcId \in SocketPlcIds :
    /\ Len(emitted) < MaxEmitted
    /\ emitted' = emitIfHeld(socket, emitted, "subscribePLC", plcId)
    /\ lastCall' = Called("subscribeToPLC", None)
    /\ UNCHANGED << socket, sockets >>
    /\ UNCHANGED << normVars, groupVars, filterVars, bitVars, serverVars, descVars >>

UnsubscribeFromPLC ==
  \E plcId \in SocketPlcIds :
    /\ Len(emitted) < MaxEmitted
    /\ emitted' = emitIfHeld(socket, emitted, "unsubscribePLC", plcId)
    /\ lastCall' = Called("unsubscribeFromPLC", None)
    /\ UNCHANGED << socket, sockets >>
    /\ UNCHANGED << normVars, groupVars, filterVars, bitVars, serverVars, descVars >>

\* The "connect" event: a socket that is not connected and whose
\* disconnect() has not been called connects.
SocketConnected ==
  \E i \in 1..Len(sockets) :
    /\ ~sockets[i].connected
    /\ ~sockets[i].disconnected
    /\ sockets' = [ sockets EXCEPT ![i].connected = TRUE ]
    /\ UNCHANGED << socket, emitted, lastCall >>
    /\ UNCHANGED << normVars, groupVars, filterVars, bitVars, serverVars, descVars >>

\* The "disconnect" event of a connection that was lost.
SocketLost ==
  \E i \in 1..Len(sockets) :
    /\ sockets[i].connected
    /\ sockets' = [ sockets EXCEPT ![i].connected = FALSE ]
    /\ UNCHANGED << socket, emitted, lastCall >>
    /\ UNCHANGED << normVars, groupVars, filterVars, bitVars, serverVars, descVars >>

NextSocket ==
  \/ SocketConnect
  \/ SocketDisconnect
  \/ SubscribeToPLC
  \/ UnsubscribeFromPLC
  \/ SocketConnected
  \/ SocketLost

SpecSocket == InitSocket /\ [][NextSocket]_vars

\* The last call of a method of the manager.
LastCall == Get(lastCall)

CalledIs(op) == IsSome(lastCall) /\ LastCall.op = op

(***************************************************************************)
(* C29: the SocketManager holds at most one socket and never drops a       *)
(* socket it created without disconnecting it; connect() while the held    *)
(* socket is connected returns that same socket; after disconnect(),       *)
(* getSocket() is null and subscribeToPLC and unsubscribeFromPLC emit      *)
(* nothing.                                                                *)
(***************************************************************************)
C29_NoSocketDropped ==
  /\ \A i \in 1..Len(sockets) :
       getSocket(socket) # Some(i) => sockets[i].disconnected
  /\ (CalledIs("connect") /\ LastCall.wasConnected) =>
       /\ LastCall.returned = LastCall.heldBefore
       /\ getSocket(socket) = LastCall.heldBefore
       /\ Len(sockets) = LastCall.socketsBefore
  /\ CalledIs("disconnect") => getSocket(socket) = None
  /\ ((CalledIs("subscribeToPLC") \/ CalledIs("unsubscribeFromPLC"))
        /\ LastCall.heldBefore = None) => emitted = LastCall.emittedBefore

====
